---- MODULE Spec2Model ----
(***************************************************************************)
(* Dual-arm gamepad teleoperation with a voice/vision grasp worker.        *)
(*                                                                         *)
(* The model has three kinds of threads:                                   *)
(*   - the main control loop (DualArmController.run_main_loop), which      *)
(*     handles the gamepad events of UIManager.handle_events and then      *)
(*     dispatches the per-tick velocity / jog commands;                    *)
(*   - the audio recording thread of vision_interaction;                   *)
(*   - the vision/voice worker threads started on "stop record & confirm", *)
(*     running _threaded_process_vision_audio and the grasp orchestrator.  *)
(*                                                                         *)
(* A blocking robot call is a state: the caller sits in it until the call  *)
(* returns, and the other threads run meanwhile.                           *)
(***************************************************************************)
EXTENDS Integers, Sequences, FiniteSets, TLC

(***************************************************************************)
(* Program constants                                                       *)
(***************************************************************************)
MODE_XYZ == "XYZ"
MODE_RPY == "RPY"
MODE_RESET == "RESET"
MODE_VISION == "VISION"

\* DualArmController.control_modes, in the order of __init__
control_modes == <<MODE_XYZ, MODE_RPY, MODE_RESET, MODE_VISION>>

\* vision_interaction.MAX_OBSERVATION_RETRIES
MAX_OBSERVATION_RETRIES == 2

\* config.DEFAULT_LONG_PRESS_DURATION (0.8 s), in time steps of 0.8 s
long_press_duration == 1

\* settings min_speed and speed_increment in units of one speed increment;
\* the initial speeds scaled into the model's range min_speed..max_speed,
\* xy above z as in the defaults (40 and 30)
min_speed == 1
speed_increment == 1
initial_xy_speed == 2
initial_z_speed == 1

(***************************************************************************)
(* Bounds of the model                                                     *)
(***************************************************************************)
\* number of speed increments between 0 and settings max_speed
MaxSpeed == 2
\* worker threads that may exist at the same time
MaxWorkers == 2
\* recording threads that may exist at the same time
MaxRecThreads == 1

max_speed == MaxSpeed

Arms == {"left", "right"}
\* the order in which every two-arm operation of the controller addresses
\* the arms: left first, then right
ArmOrder == <<"left", "right">>
Workers == 1..MaxWorkers
RecThreads == 1..MaxRecThreads

None == "None"
\* mode_button_press_time is None
NotPressed == -1

VARIABLES
    \* ---- DualArmController ----
    current_mode_index,   \* 0-based index into control_modes
    control_mode,
    press_elapsed,        \* current_time - mode_button_press_time, capped at
                          \* long_press_duration; NotPressed when the time is None
    current_speed_xy,
    current_speed_z,
    gripper_open,         \* [Arms -> BOOLEAN]: left_/right_gripper_open
    setup,                \* what setup() produced: init_ok, gripper_active,
                          \* cameras, models, calibration
    \* ---- main thread position ----
    main_pc,              \* "idle" | "stop" | "send" | "preset"
    main_call,            \* arm whose robot call the main thread is inside, or None
    main_todo,            \* arms the running operation has still to address
    stop_issued,          \* arms that got a stop command in the running stop_all_movement
    \* ---- vision_interaction module state ----
    is_recording,
    audio_frames,         \* the threads whose blocks are in audio_frames
    recording_thread,     \* id of the referenced thread, or 0 for None
    rec_alive,            \* recording threads whose stream is still open
    \* ---- worker threads ----
    workers,              \* [Workers -> worker record]
    \* ---- one call of a function of the vision pipeline or of the preset
    \* ---- executor, outside the threads above ----
    calc                  \* [op, in, pc, out]: the function, its arguments,
                          \* "call" or "done" (or a position inside it), its
                          \* locals and result

vars == <<current_mode_index, control_mode, press_elapsed, current_speed_xy,
          current_speed_z, gripper_open, setup, main_pc, main_call, main_todo,
          stop_issued, is_recording, audio_frames, recording_thread, rec_alive,
          workers, calc>>

prog_vars == <<current_mode_index, control_mode, press_elapsed, current_speed_xy,
               current_speed_z, gripper_open, setup, main_pc, main_call,
               main_todo, stop_issued, is_recording, audio_frames,
               recording_thread, rec_alive, workers>>

ctrl_vars == <<current_mode_index, control_mode, press_elapsed>>
speed_vars == <<current_speed_xy, current_speed_z>>
main_vars == <<main_pc, main_call, main_todo, stop_issued>>
rec_vars == <<is_recording, audio_frames, recording_thread, rec_alive>>


(***************************************************************************)
(* Outcome of DualArmController.setup()                                    *)
(***************************************************************************)
\* forms a calibration_matrices entry can have: absent, the numpy array that
\* _initialize_vision_components stores, or a nested 4x4 list as the
\* parameter T_end_to_camera_list of transform_camera_to_base provides for
CalibForms == {None, "ndarray", "list"}

ObjectId == "cup"

FullSetup ==
    [init_ok        |-> [a \in Arms |-> TRUE],
     gripper_active |-> [a \in Arms |-> TRUE],
     cameras        |-> Arms,
     models         |-> {ObjectId},
     calibration    |-> [a \in Arms |-> "list"]]

\* the setups explored: everything ready; left arm failed to initialize and
\* the right hand camera is missing; no detector model loaded; left arm
\* without calibration, right arm with the array loaded from its YAML file
SetupOutcomes ==
    { FullSetup,
      [FullSetup EXCEPT !.init_ok["left"] = FALSE,
                        !.gripper_active["left"] = FALSE,
                        !.cameras = {"left"},
                        !.models = {"default"}],
      [FullSetup EXCEPT !.models = {}],
      [FullSetup EXCEPT !.gripper_active["right"] = FALSE,
                        !.calibration = [a \in Arms |->
                                           IF a = "left" THEN None ELSE "ndarray"]] }

IdleWorker ==
    [pc |-> "idle", arm |-> None, id |-> None, attempt |-> 0, captures |-> 0, execs |-> 0,
     matched |-> FALSE, last |-> None, result |-> None, reported |-> None]

\* variant of InitialModeIndex that starts the controller in the last mode
InitialModeIndex_m == Len(control_modes) - 1

\* DualArmController.__init__: the mode index the controller starts with
InitialModeIndex == 0

\* no function call under study
NoCalc == [op |-> None, in |-> None, pc |-> "done", out |-> None]

Init ==
    /\ current_mode_index = InitialModeIndex
    /\ control_mode = control_modes[InitialModeIndex + 1]
    /\ press_elapsed = NotPressed
    /\ current_speed_xy = initial_xy_speed
    /\ current_speed_z = initial_z_speed
    /\ gripper_open = [a \in Arms |-> TRUE]
    /\ setup \in SetupOutcomes
    /\ main_pc = "idle"
    /\ main_call = None
    /\ main_todo = <<>>
    /\ stop_issued = {}
    /\ is_recording = FALSE
    /\ audio_frames = {}
    /\ recording_thread = 0
    /\ rec_alive = {}
    /\ workers = [w \in Workers |-> IdleWorker]
    /\ calc = NoCalc

(***************************************************************************)
(* Helpers                                                                 *)
(***************************************************************************)
Min(a, b) == IF a < b THEN a ELSE b
Max(a, b) == IF a > b THEN a ELSE b

\* the arms of ArmOrder that satisfy ok, in order
RECURSIVE SelectArms(_, _)
SelectArms(seq, ok) ==
    IF seq = <<>> THEN <<>>
    ELSE IF ok[Head(seq)] THEN <<Head(seq)>> \o SelectArms(Tail(seq), ok)
         ELSE SelectArms(Tail(seq), ok)

\* the main thread enters the first robot call of a list of arms
MainStartCalls(pc, arms) ==
    IF arms = <<>>
    THEN /\ main_pc' = pc
         /\ main_call' = None
         /\ main_todo' = <<>>
    ELSE /\ main_pc' = pc
         /\ main_call' = Head(arms)
         /\ main_todo' = Tail(arms)

(***************************************************************************)
(* vision_interaction: recording                                           *)
(***************************************************************************)
\* thread.join(timeout): the thread has observed is_recording = False and
\* left its stream (joined), or the join timed out and it is still alive
JoinRecordingThread(joined) ==
    IF recording_thread \in rec_alive /\ joined
    THEN rec_alive \ {recording_thread}
    ELSE rec_alive

\* variant of CancelRecordingEffect that stops the thread but keeps the
\* captured frames
CancelRecordingEffect_m(joined) ==
    /\ is_recording' = FALSE
    /\ rec_alive' = JoinRecordingThread(joined)
    /\ recording_thread' = 0
    /\ audio_frames' = audio_frames

\* cancel_recording(), called with is_recording true
CancelRecordingEffect(joined) ==
    /\ is_recording' = FALSE
    /\ rec_alive' = JoinRecordingThread(joined)
    /\ recording_thread' = 0
    /\ audio_frames' = {}

(***************************************************************************)
(* Main thread: mode switch (UIManager.handle_events, switch_control_mode)  *)
(***************************************************************************)
\* time passes between two polls of the event queue while the mode button
\* is held
TimeAdvance ==
    /\ main_pc = "idle"
    /\ press_elapsed # NotPressed
    /\ press_elapsed < long_press_duration
    /\ press_elapsed' = press_elapsed + 1
    /\ UNCHANGED <<current_mode_index, control_mode, speed_vars, gripper_open,
                   setup, calc, main_vars, rec_vars, workers>>

\* JOYBUTTONDOWN of the mode-switch button
ModeButtonDown ==
    /\ main_pc = "idle"
    /\ press_elapsed = NotPressed
    /\ press_elapsed' = 0
    /\ UNCHANGED <<current_mode_index, control_mode, speed_vars, gripper_open,
                   setup, calc, main_vars, rec_vars, workers>>

\* JOYBUTTONUP of the mode-switch button with no recorded press
\* (mode_button_press_time is None): the handler does nothing
ModeButtonUpNoPress ==
    /\ main_pc = "idle"
    /\ press_elapsed = NotPressed
    /\ UNCHANGED vars

\* variant of IsShortPress that also accepts a hold of exactly the long-press
\* duration
IsShortPress_m(elapsed) == elapsed <= long_press_duration

\* press_duration < long_press_duration
IsShortPress(elapsed) == elapsed < long_press_duration

\* JOYBUTTONUP of the mode-switch button after a long hold: the press time is
\* cleared and nothing else happens
ModeButtonUpLong ==
    /\ main_pc = "idle"
    /\ press_elapsed # NotPressed
    /\ ~IsShortPress(press_elapsed)
    /\ press_elapsed' = NotPressed
    /\ UNCHANGED <<current_mode_index, control_mode, speed_vars, gripper_open,
                   setup, calc, main_vars, rec_vars, workers>>

\* arms stop_all_movement addresses: left_init_ok and controller_left, then
\* right_init_ok and controller_right
StopTargets == SelectArms(ArmOrder, setup.init_ok)

\* JOYBUTTONUP after a short hold: switch_control_mode() starts with
\* stop_all_movement()
ModeButtonUpShort ==
    /\ main_pc = "idle"
    /\ press_elapsed # NotPressed
    /\ IsShortPress(press_elapsed)
    /\ MainStartCalls("stop", StopTargets)
    /\ stop_issued' = IF StopTargets = <<>> THEN {} ELSE {Head(StopTargets)}
    /\ UNCHANGED <<ctrl_vars, speed_vars, gripper_open, setup, calc, rec_vars, workers>>

\* arms still addressed after a stop call returned: one try block encloses
\* both calls, so an exception of the first skips the second
StopRemaining(outcome, todo) == IF outcome = "raise" THEN <<>> ELSE todo

\* a moveBySpeedl([0]*6) of stop_all_movement returns or raises
StopCallReturn ==
    /\ main_pc = "stop"
    /\ main_call # None
    /\ \E outcome \in {"ok", "raise"} :
         LET rest == StopRemaining(outcome, main_todo) IN
         /\ MainStartCalls("stop", rest)
         /\ stop_issued' = IF rest = <<>> THEN stop_issued
                           ELSE stop_issued \cup {Head(rest)}
    /\ UNCHANGED <<ctrl_vars, speed_vars, gripper_open, setup, calc, rec_vars, workers>>

\* variant of SwitchedIndex that wraps one mode too early
SwitchedIndex_m(i) == (i + 1) % (Len(control_modes) - 1)

\* (current_mode_index + 1) % len(control_modes)
SwitchedIndex(i) == (i + 1) % Len(control_modes)

\* the rest of switch_control_mode after stop_all_movement, and the clearing
\* of mode_button_press_time in handle_events
SwitchFinish ==
    /\ main_pc = "stop"
    /\ main_call = None
    /\ current_mode_index' = SwitchedIndex(current_mode_index)
    /\ control_mode' = control_modes[current_mode_index' + 1]
    /\ IF control_mode = MODE_VISION /\ is_recording
       THEN \E joined \in BOOLEAN : CancelRecordingEffect(joined)
       ELSE UNCHANGED rec_vars
    /\ press_elapsed' = NotPressed
    /\ main_pc' = "idle"
    /\ stop_issued' = {}
    /\ UNCHANGED <<main_call, main_todo, speed_vars, gripper_open, setup, calc, workers>>

(***************************************************************************)
(* Main thread: speed and gripper buttons                                  *)
(***************************************************************************)
\* "speed increase" button: effective in the two jog modes only
SpeedIncrease ==
    /\ main_pc = "idle"
    /\ control_mode \in {MODE_XYZ, MODE_RPY}
    /\ current_speed_xy' = Min(max_speed, current_speed_xy + speed_increment)
    /\ current_speed_z' = Min(max_speed, current_speed_z + speed_increment)
    /\ UNCHANGED <<ctrl_vars, gripper_open, setup, calc, main_vars, rec_vars, workers>>

\* "speed decrease" button
SpeedDecrease ==
    /\ main_pc = "idle"
    /\ control_mode \in {MODE_XYZ, MODE_RPY}
    /\ current_speed_xy' = Max(min_speed, current_speed_xy - speed_increment)
    /\ current_speed_z' = Max(min_speed, current_speed_z - speed_increment)
    /\ UNCHANGED <<ctrl_vars, gripper_open, setup, calc, main_vars, rec_vars, workers>>

\* toggle_gripper(side): the flag is flipped after the gripper command
\* returned; an inactive gripper or a raising command leaves it alone
ToggleGripper(side) ==
    /\ main_pc = "idle"
    /\ setup.gripper_active[side]
    /\ \E outcome \in {"ok", "raise"} :
         gripper_open' = IF outcome = "ok"
                         THEN [gripper_open EXCEPT ![side] = ~gripper_open[side]]
                         ELSE gripper_open
    /\ UNCHANGED <<ctrl_vars, speed_vars, setup, calc, main_vars, rec_vars, workers>>

(***************************************************************************)
(* Main thread: per-tick dispatch (run_main_loop, _send_robot_commands)     *)
(***************************************************************************)
\* arms that get a command in this tick: in XYZ every initialized arm gets a
\* moveBySpeedl; in RPY send_jog_command issues jog pulses for the arms whose
\* vector has a component beyond the dead band (the arms in jogging)
TickTargets(mode, jogging) ==
    IF mode = MODE_XYZ THEN SelectArms(ArmOrder, setup.init_ok)
    ELSE IF mode = MODE_RPY
         THEN SelectArms(ArmOrder, [a \in Arms |-> setup.init_ok[a] /\ a \in jogging])
         ELSE <<>>

\* one iteration of the loop after handle_events: synthesis and dispatch
TickBegin ==
    /\ main_pc = "idle"
    /\ \E jogging \in SUBSET Arms :
         /\ TickTargets(control_mode, jogging) # <<>>
         /\ MainStartCalls("send", TickTargets(control_mode, jogging))
    /\ UNCHANGED <<ctrl_vars, speed_vars, gripper_open, setup, calc, stop_issued,
                   rec_vars, workers>>

\* the velocity / jog call of one arm returns or raises; each arm's call has
\* its own exception handler, so the next arm is addressed either way
SendCallReturn ==
    /\ main_pc = "send"
    /\ main_call # None
    /\ IF main_todo = <<>>
       THEN /\ main_pc' = "idle"
            /\ main_call' = None
            /\ main_todo' = <<>>
       ELSE MainStartCalls("send", main_todo)
    /\ UNCHANGED <<ctrl_vars, speed_vars, gripper_open, setup, calc, stop_issued,
                   rec_vars, workers>>

(***************************************************************************)
(* Main thread: pose presets (RESET mode)                                  *)
(***************************************************************************)
\* a preset control fires in RESET mode: _attempt_reset_rpy_orientation and
\* attempt_reset_arm get as far as the blocking move when the arm is
\* initialized, the preset entry is valid and the pose read succeeds
PresetBegin(arm) ==
    /\ main_pc = "idle"
    /\ control_mode = MODE_RESET
    /\ setup.init_ok[arm]
    /\ MainStartCalls("preset", <<arm>>)
    /\ UNCHANGED <<ctrl_vars, speed_vars, gripper_open, setup, calc, stop_issued,
                   rec_vars, workers>>

\* the blocking move of the preset returns (success, failure or exception)
PresetCallReturn ==
    /\ main_pc = "preset"
    /\ main_pc' = "idle"
    /\ main_call' = None
    /\ main_todo' = <<>>
    /\ UNCHANGED <<ctrl_vars, speed_vars, gripper_open, setup, calc, stop_issued,
                   rec_vars, workers>>

(***************************************************************************)
(* Main thread: recording buttons (VISION mode)                            *)
(***************************************************************************)
\* "start record" button: start_recording_thread() clears the buffer, sets
\* the flag and starts a recording thread
StartRecord ==
    /\ main_pc = "idle"
    /\ control_mode = MODE_VISION
    /\ ~is_recording
    /\ \E t \in RecThreads \ rec_alive :
         /\ \A u \in RecThreads \ rec_alive : t <= u
         /\ rec_alive' = rec_alive \cup {t}
         /\ recording_thread' = t
    /\ audio_frames' = {}
    /\ is_recording' = TRUE
    /\ UNCHANGED <<ctrl_vars, speed_vars, gripper_open, setup, calc, main_vars, workers>>

\* the worker slots a new thread may take
FreeWorkers(slots) == {w \in slots : workers[w].pc = "idle"}

\* variant that starts the worker whether or not a clip was saved
StartsWorker_m(saved) == TRUE

\* handle_events, vision_stop_record_confirm: what decides that a worker
\* thread is started for the clip stop_recording_and_save() returned
StartsWorker(saved) == saved

\* "stop record & confirm" button: stop_recording_and_save(), and a worker
\* thread for the saved clip.  The clip is saved when frames were captured
\* and writing the file did not fail.
StopRecordConfirm(slots) ==
    /\ main_pc = "idle"
    /\ control_mode = MODE_VISION
    /\ is_recording
    /\ is_recording' = FALSE
    /\ \E joined \in BOOLEAN : rec_alive' = JoinRecordingThread(joined)
    /\ recording_thread' = 0
    /\ audio_frames' = {}
    /\ \E write_ok \in BOOLEAN :
         LET saved == audio_frames # {} /\ write_ok IN
         IF StartsWorker(saved)
         THEN /\ FreeWorkers(slots) # {}
              /\ LET w == CHOOSE x \in FreeWorkers(slots) :
                            \A y \in FreeWorkers(slots) : x <= y
                 IN workers' = [workers EXCEPT ![w] = [IdleWorker EXCEPT !.pc = "net"]]
         ELSE UNCHANGED workers
    /\ UNCHANGED <<ctrl_vars, speed_vars, gripper_open, setup, calc, main_vars>>

\* "cancel record" button
CancelRecord ==
    /\ main_pc = "idle"
    /\ control_mode = MODE_VISION
    /\ is_recording
    /\ \E joined \in BOOLEAN : CancelRecordingEffect(joined)
    /\ UNCHANGED <<ctrl_vars, speed_vars, gripper_open, setup, calc, main_vars, workers>>

(***************************************************************************)
(* Recording thread (_record_task, record_audio_callback)                  *)
(***************************************************************************)
\* the stream callback appends a block while is_recording is set; a further
\* block of the same thread leaves the set of contributing threads as it is
RecordCallback(t) ==
    /\ t \in rec_alive
    /\ is_recording
    /\ t \notin audio_frames
    /\ audio_frames' = audio_frames \cup {t}
    /\ UNCHANGED <<ctrl_vars, speed_vars, gripper_open, setup, calc, main_vars,
                   is_recording, recording_thread, rec_alive, workers>>

\* the thread sees is_recording cleared, closes its stream and ends
RecordThreadExit(t) ==
    /\ t \in rec_alive
    /\ ~is_recording
    /\ rec_alive' = rec_alive \ {t}
    /\ UNCHANGED <<ctrl_vars, speed_vars, gripper_open, setup, calc, main_vars,
                   is_recording, audio_frames, recording_thread, workers>>

\* the stream fails (PortAudioError or another exception): the handler
\* clears is_recording and the thread ends
RecordThreadError(t) ==
    /\ t \in rec_alive
    /\ is_recording
    /\ is_recording' = FALSE
    /\ rec_alive' = rec_alive \ {t}
    /\ UNCHANGED <<ctrl_vars, speed_vars, gripper_open, setup, calc, main_vars,
                   audio_frames, recording_thread, workers>>

(***************************************************************************)
(* Vision/voice worker thread (_threaded_process_vision_audio)             *)
(***************************************************************************)
\* the command the server's reply decodes to
Commands ==
    [kind : {"none", "error", "other"}, arm : {None}, id : {None},
     coords_ok : {TRUE}]
    \cup [kind : {"grasp"}, arm : Arms \cup {"both"},
          id : {ObjectId, "unknown"}, coords_ok : BOOLEAN]

\* variant of RobotControllersDict that hands over both controllers whether
\* or not the arm was initialized
RobotControllersDict_m == Arms

\* robot_controllers_dict: the arms whose controller is handed to the
\* orchestrator
RobotControllersDict == {a \in Arms : setup.init_ok[a]}

\* models.get(object_id) or models.get('default')
ModelAvailable(id) == id \in setup.models \/ "default" \in setup.models

\* the worker's checks before it calls handle_command_json for a grasp
ChecksPassed(cmd) ==
    IF cmd.arm \notin RobotControllersDict THEN FALSE
    ELSE IF cmd.arm \notin setup.cameras THEN FALSE
    ELSE IF ~ModelAvailable(cmd.id) THEN FALSE
    ELSE setup.calibration[cmd.arm] # None

\* initiate_grasp_from_command: the validation of its inputs
GraspInputsValid(cmd, controllers) ==
    /\ cmd.coords_ok
    /\ cmd.arm \in Arms
    /\ cmd.arm \in controllers
    /\ ModelAvailable(cmd.id)
    /\ cmd.arm \in setup.cameras
    /\ setup.calibration[cmd.arm] # None

\* handle_command_json has no return statement: whatever the orchestrator
\* returned, the worker receives None
HandleCommandJsonReturn(orchestrator_result) == None

\* the status and sound cue of a grasp command, from action_success
GraspReport(action_success) ==
    IF action_success = "True" THEN "success" ELSE "failure"

\* the worker leaves the orchestrator with this result
Finish(w, result) ==
    [w EXCEPT !.pc = "report", !.result = result,
              !.reported = IF result = "raised" THEN "failure"
                           ELSE GraspReport(HandleCommandJsonReturn(result))]

\* variant of NextAttempt whose loop runs one attempt more
NextAttempt_m(w) ==
    IF w.attempt <= MAX_OBSERVATION_RETRIES
    THEN [w EXCEPT !.pc = "capture", !.attempt = w.attempt + 1,
                   !.captures = w.captures + 1]
    ELSE Finish(w, "False")

\* "continue" / end of a failed attempt: the next attempt starts with a
\* capture, or the loop is exhausted and the orchestrator returns False
NextAttempt(w) ==
    IF w.attempt < MAX_OBSERVATION_RETRIES
    THEN [w EXCEPT !.pc = "capture", !.attempt = w.attempt + 1,
                   !.captures = w.captures + 1]
    ELSE Finish(w, "False")

\* send_audio_and_receive_response returns; the command is checked and, for
\* a valid grasp, the first attempt's capture begins
WNetReturn(w) ==
    /\ workers[w].pc = "net"
    /\ \E cmd \in Commands :
         LET me == workers[w] IN
         workers' = [workers EXCEPT ![w] =
           CASE cmd.kind = "none"  -> [me EXCEPT !.pc = "report", !.reported = "invalid"]
             [] cmd.kind = "error" -> [me EXCEPT !.pc = "report", !.reported = "failure"]
             [] cmd.kind = "other" -> [me EXCEPT !.pc = "report", !.reported = "processed"]
             [] OTHER ->
                  IF ~ChecksPassed(cmd)
                  THEN [me EXCEPT !.pc = "report", !.arm = cmd.arm,
                                  !.id = cmd.id, !.reported = "failure"]
                  ELSE IF ~GraspInputsValid(cmd, RobotControllersDict)
                  THEN Finish([me EXCEPT !.arm = cmd.arm, !.id = cmd.id], "False")
                  ELSE NextAttempt([me EXCEPT !.arm = cmd.arm, !.id = cmd.id])]
    /\ UNCHANGED <<ctrl_vars, speed_vars, gripper_open, setup, calc, main_vars, rec_vars>>

\* transform_camera_to_base tests the matrix with "not": a numpy array
\* raises there, outside the function's try block
TransformRaises(calib) == calib = "ndarray"

\* capture_and_detect returns; on a match the position is computed and
\* transform_camera_to_base tests the calibration and starts the read of the
\* arm's current pose
WCaptureReturn(w) ==
    /\ workers[w].pc = "capture"
    /\ \E outcome \in {"no_frames", "no_match", "match"}, calc_ok \in BOOLEAN :
         LET me == workers[w] IN
         workers' = [workers EXCEPT ![w] =
           IF outcome # "match" THEN NextAttempt(me)
           ELSE LET m == [me EXCEPT !.matched = TRUE] IN
                IF ~calc_ok THEN NextAttempt(m)
                ELSE IF TransformRaises(setup.calibration[me.arm]) THEN Finish(m, "raised")
                ELSE [m EXCEPT !.pc = "pose"]]
    /\ UNCHANGED <<ctrl_vars, speed_vars, gripper_open, setup, calc, main_vars, rec_vars>>

\* getTCPPose returns inside transform_camera_to_base: a pose of 6 values
\* ("ok"), nothing or a pose of another length ("bad"), or an exception, which
\* the function's try block turns into None.  With a base-frame point the
\* poses are planned and execute_grasp_sequence begins with the gripper-open
\* call
WPoseReturn(w) ==
    /\ workers[w].pc = "pose"
    /\ \E outcome \in {"ok", "bad", "raise"} :
         workers' = [workers EXCEPT ![w] =
           IF outcome = "ok"
           THEN [@ EXCEPT !.pc = "open", !.execs = @ + 1, !.last = None]
           ELSE NextAttempt(@)]
    /\ UNCHANGED <<ctrl_vars, speed_vars, gripper_open, setup, calc, main_vars, rec_vars>>

\* a gripper call of the sequence returns or raises
WGripperReturn(w, pc, next) ==
    /\ workers[w].pc = pc
    /\ \E outcome \in {"ok", "raise"} :
         workers' = [workers EXCEPT ![w] =
           IF outcome = "ok" THEN [@ EXCEPT !.pc = next, !.last = outcome]
           ELSE NextAttempt([@ EXCEPT !.last = outcome])]
    /\ UNCHANGED <<ctrl_vars, speed_vars, gripper_open, setup, calc, main_vars, rec_vars>>

WOpenReturn(w) == WGripperReturn(w, "open", "pre")

WCloseReturn(w) == WGripperReturn(w, "close", "post")

\* variant of MoveProceeds that goes on unless the move raised
MoveProceeds_m(outcome) == outcome # "raise"

\* "if not success: ... return False" after the pre-grasp and the grasp move
MoveProceeds(outcome) == outcome = "True"

\* a blocking move to the pre-grasp or the grasp pose returns
WMoveReturn(w, pc, next) ==
    /\ workers[w].pc = pc
    /\ \E outcome \in {"True", "False", "raise"} :
         workers' = [workers EXCEPT ![w] =
           IF MoveProceeds(outcome) THEN [@ EXCEPT !.pc = next, !.last = outcome]
           ELSE NextAttempt([@ EXCEPT !.last = outcome])]
    /\ UNCHANGED <<ctrl_vars, speed_vars, gripper_open, setup, calc, main_vars, rec_vars>>

WPreReturn(w) == WMoveReturn(w, "pre", "grasp")

WGraspReturn(w) == WMoveReturn(w, "grasp", "close")

\* variant of AfterSequence that starts another attempt after a success
AfterSequence_m(w, grasp_successful) == NextAttempt(w)

\* the loop after execute_grasp_sequence returned: "break" on success, the
\* next attempt otherwise
AfterSequence(w, grasp_successful) ==
    IF grasp_successful THEN Finish(w, "True") ELSE NextAttempt(w)

\* the post-grasp move returns: its failure is only a warning and the
\* sequence returns True; an exception makes the sequence return False
WPostReturn(w) ==
    /\ workers[w].pc = "post"
    /\ \E outcome \in {"True", "False", "raise"} :
         workers' = [workers EXCEPT ![w] =
           AfterSequence([@ EXCEPT !.last = outcome], outcome # "raise")]
    /\ UNCHANGED <<ctrl_vars, speed_vars, gripper_open, setup, calc, main_vars, rec_vars>>

\* the final status is shown and the thread ends
WReport(w) ==
    /\ workers[w].pc = "report"
    /\ workers' = [workers EXCEPT ![w] = IdleWorker]
    /\ UNCHANGED <<ctrl_vars, speed_vars, gripper_open, setup, calc, main_vars, rec_vars>>

WorkerStep(w) ==
    \/ WNetReturn(w)
    \/ WCaptureReturn(w)
    \/ WPoseReturn(w)
    \/ WOpenReturn(w)
    \/ WPreReturn(w)
    \/ WGraspReturn(w)
    \/ WCloseReturn(w)
    \/ WPostReturn(w)
    \/ WReport(w)

\* the whole program, with one worker thread at a time
FirstWorker == {1}

Next ==
    \/ TimeAdvance
    \/ ModeButtonDown
    \/ ModeButtonUpNoPress
    \/ ModeButtonUpLong
    \/ ModeButtonUpShort
    \/ StopCallReturn
    \/ SwitchFinish
    \/ SpeedIncrease
    \/ SpeedDecrease
    \/ \E side \in Arms : ToggleGripper(side)
    \/ TickBegin
    \/ SendCallReturn
    \/ \E arm \in Arms : PresetBegin(arm)
    \/ PresetCallReturn
    \/ StartRecord
    \/ StopRecordConfirm(FirstWorker)
    \/ CancelRecord
    \/ \E t \in RecThreads : RecordCallback(t)
    \/ \E t \in RecThreads : RecordThreadExit(t)
    \/ \E t \in RecThreads : RecordThreadError(t)
    \/ \E w \in FirstWorker : WorkerStep(w)

Spec == Init /\ [][Next]_vars

\* mode switching, voice recording and the worker threads the recordings
\* start, as many as MaxWorkers at a time
NextWorkers ==
    \/ TimeAdvance
    \/ ModeButtonDown
    \/ ModeButtonUpNoPress
    \/ ModeButtonUpLong
    \/ ModeButtonUpShort
    \/ StopCallReturn
    \/ SwitchFinish
    \/ StartRecord
    \/ StopRecordConfirm(Workers)
    \/ CancelRecord
    \/ \E t \in RecThreads : RecordCallback(t)
    \/ \E t \in RecThreads : RecordThreadExit(t)
    \/ \E t \in RecThreads : RecordThreadError(t)
    \/ \E w \in Workers : WorkerStep(w)

SpecWorkers == Init /\ [][NextWorkers]_vars

\* mode switching, voice recording and one grasp worker: the life of one
\* voice request from the recording to its report
NextGrasp ==
    \/ TimeAdvance
    \/ ModeButtonDown
    \/ ModeButtonUpNoPress
    \/ ModeButtonUpLong
    \/ ModeButtonUpShort
    \/ StopCallReturn
    \/ SwitchFinish
    \/ StartRecord
    \/ StopRecordConfirm(FirstWorker)
    \/ CancelRecord
    \/ \E t \in RecThreads : RecordCallback(t)
    \/ \E t \in RecThreads : RecordThreadExit(t)
    \/ \E t \in RecThreads : RecordThreadError(t)
    \/ \E w \in FirstWorker : WorkerStep(w)

SpecGrasp == Init /\ [][NextGrasp]_vars

(***************************************************************************)
(* Main thread: exit (run_main_loop ends, main.py calls cleanup)            *)
(***************************************************************************)
\* QUIT or ESC clears running in handle_events, the loop ends and cleanup()
\* begins with stop_all_movement()
CleanupBegin ==
    /\ main_pc = "idle"
    /\ MainStartCalls("cleanup", StopTargets)
    /\ stop_issued' = IF StopTargets = <<>> THEN {} ELSE {Head(StopTargets)}
    /\ UNCHANGED <<ctrl_vars, speed_vars, gripper_open, setup, calc, rec_vars, workers>>

\* a moveBySpeedl([0]*6) of cleanup's stop_all_movement returns or raises
CleanupStopReturn ==
    /\ main_pc = "cleanup"
    /\ main_call # None
    /\ \E outcome \in {"ok", "raise"} :
         LET rest == StopRemaining(outcome, main_todo) IN
         /\ MainStartCalls("cleanup", rest)
         /\ stop_issued' = IF rest = <<>> THEN stop_issued
                           ELSE stop_issued \cup {Head(rest)}
    /\ UNCHANGED <<ctrl_vars, speed_vars, gripper_open, setup, calc, rec_vars, workers>>

\* the rest of cleanup(): the cameras are closed and forgotten, both
\* controllers are disconnected and set to None, left_init_ok and
\* right_init_ok are cleared; a worker thread that is running is left alone
CleanupFinish ==
    /\ main_pc = "cleanup"
    /\ main_call = None
    /\ main_pc' = "exited"
    /\ setup' = [setup EXCEPT !.init_ok = [a \in Arms |-> FALSE],
                              !.cameras = {}]
    /\ UNCHANGED <<ctrl_vars, speed_vars, gripper_open, calc, main_call, main_todo,
                   stop_issued, rec_vars, workers>>

\* mode switching, voice recording, one grasp worker and the exit of the
\* program
NextCleanup ==
    \/ TimeAdvance
    \/ ModeButtonDown
    \/ ModeButtonUpNoPress
    \/ ModeButtonUpLong
    \/ ModeButtonUpShort
    \/ StopCallReturn
    \/ SwitchFinish
    \/ TickBegin
    \/ SendCallReturn
    \/ \E arm \in Arms : PresetBegin(arm)
    \/ PresetCallReturn
    \/ StartRecord
    \/ StopRecordConfirm(FirstWorker)
    \/ CancelRecord
    \/ \E t \in RecThreads : RecordCallback(t)
    \/ \E t \in RecThreads : RecordThreadExit(t)
    \/ \E t \in RecThreads : RecordThreadError(t)
    \/ \E w \in FirstWorker : WorkerStep(w)
    \/ CleanupBegin
    \/ CleanupStopReturn
    \/ CleanupFinish

SpecCleanup == Init /\ [][NextCleanup]_vars

(***************************************************************************)
(* Recording with a thread that outlives its join                          *)
(***************************************************************************)
\* the recording threads when a thread whose join timed out is still alive
\* beside the threads of RecThreads
RecThreadsWithStale == 1..(MaxRecThreads + 1)

\* start_recording_thread() with is_recording clear: the buffer is replaced
\* by an empty one, the flag is set and a new thread is started, whether or
\* not an earlier thread is still alive
StartRecordingThread(threads) ==
    /\ main_pc = "idle"
    /\ control_mode = MODE_VISION
    /\ ~is_recording
    /\ \E t \in threads \ rec_alive :
         /\ \A u \in threads \ rec_alive : t <= u
         /\ rec_alive' = rec_alive \cup {t}
         /\ recording_thread' = t
    /\ audio_frames' = {}
    /\ is_recording' = TRUE
    /\ UNCHANGED <<ctrl_vars, speed_vars, gripper_open, setup, calc, main_vars, workers>>

\* mode switching, the recording buttons, the recording threads and one
\* worker
NextRecord ==
    \/ TimeAdvance
    \/ ModeButtonDown
    \/ ModeButtonUpNoPress
    \/ ModeButtonUpLong
    \/ ModeButtonUpShort
    \/ StopCallReturn
    \/ SwitchFinish
    \/ StartRecordingThread(RecThreadsWithStale)
    \/ StopRecordConfirm(FirstWorker)
    \/ CancelRecord
    \/ \E t \in RecThreadsWithStale : RecordCallback(t)
    \/ \E t \in RecThreadsWithStale : RecordThreadExit(t)
    \/ \E t \in RecThreadsWithStale : RecordThreadError(t)
    \/ \E w \in FirstWorker : WorkerStep(w)

SpecRecord == Init /\ [][NextRecord]_vars

(***************************************************************************)
(* Functions of the vision pipeline, called with arguments of their own    *)
(***************************************************************************)
\* longest list of detections
MaxDetections == 3

\* "0 < depth_mm < 10000": depths from this value on are not valid
DEPTH_LIMIT_MM == 10000

\* labels of the detected boxes: the requested class and another one
Labels == {ObjectId, "other"}

\* depths get_depth_for_color_pixel returns for a box centre, in mm: the
\* search only returns a depth greater than 0, and depth_frame2depth_data
\* leaves none from MAX_DEPTH = 10000 on in the frame; its temporal filter
\* can produce depths below MIN_DEPTH such as 10
DepthReadings == {10, 300, 500}

\* one box of the YOLO results: its label, whether its centre lies inside the
\* depth frame, and the depth read for its centre
Detections == [label : Labels, in_bounds : BOOLEAN, depth_mm : DepthReadings]

RECURSIVE SeqsUpTo(_, _)
\* the sequences over S of length at most n
SeqsUpTo(S, n) ==
    IF n = 0 THEN {<<>>}
    ELSE LET shorter == SeqsUpTo(S, n - 1) IN
         shorter \cup {Append(q, x) : q \in {r \in shorter : Len(r) = n - 1}, x \in S}

\* min_depth = float('inf'): no depth is the minimum yet
NoDepth == -1

\* variant of IsCloser that prefers the farther box
IsCloser_m(depth_mm, min_depth) == min_depth # NoDepth /\ depth_mm > min_depth

\* "if depth_mm < min_depth"
IsCloser(depth_mm, min_depth) == min_depth = NoDepth \/ depth_mm < min_depth

\* "depth_mm is not None and 0 < depth_mm < 10000"; the depth search returns
\* a number
ValidDepth(depth_mm) == 0 < depth_mm /\ depth_mm < DEPTH_LIMIT_MM

RECURSIVE ScanBoxes(_, _, _, _, _)
\* the loop over the boxes from box i on, with the best box so far (0 for
\* None) and its depth; the result is the best box at the end of the loop
ScanBoxes(boxes, object_id, i, best_box, min_depth) ==
    IF i > Len(boxes) THEN best_box
    ELSE LET box == boxes[i] IN
         IF /\ box.label = object_id
            /\ box.in_bounds
            /\ ValidDepth(box.depth_mm)
            /\ IsCloser(box.depth_mm, min_depth)
         THEN ScanBoxes(boxes, object_id, i + 1, i, box.depth_mm)
         ELSE ScanBoxes(boxes, object_id, i + 1, best_box, min_depth)

\* best_box of capture_and_detect: the index of the selected box, 0 for None
SelectBest(boxes, object_id) == ScanBoxes(boxes, object_id, 1, 0, NoDepth)

\* the calls of capture_and_detect's selection
SelectCalls ==
    {[op |-> "select", in |-> [boxes |-> b, object_id |-> ObjectId],
      pc |-> "call", out |-> None] : b \in SeqsUpTo(Detections, MaxDetections)}

\* capture_and_detect selects the best box of the results
CaptureAndDetect ==
    /\ calc.op = "select"
    /\ calc.pc = "call"
    /\ calc' = [calc EXCEPT !.pc = "done",
                            !.out = SelectBest(calc.in.boxes, calc.in.object_id)]
    /\ UNCHANGED prog_vars

\* width of the depth frames
FrameWidth == 2

\* the rows of the depth frames
FrameRows == {0, 1}

\* largest search radius followed
MaxRadius == 3

\* the pixels <<x, y>> of a depth frame
Pixels == (0..(FrameWidth - 1)) \X FrameRows

\* depth_data: a depth in mm for every pixel, 0 where the sensor has none
DepthFrames == [Pixels -> {0, 300, 500}]

\* the pixels scanned with this radius: range(min_x, max_x) x range(min_y,
\* max_y), the window around the centre clipped to the frame
SearchWindow(center, search_radius) ==
    LET min_x == Max(center[1] - search_radius, 0)
        max_x == Min(center[1] + search_radius + 1, FrameWidth)
        min_y == Max(center[2] - search_radius, 0)
        max_y == Min(center[2] + search_radius + 1, Cardinality(FrameRows)) IN
    (min_x..(max_x - 1)) \X (min_y..(max_y - 1))

\* the first pixel of the scan (x in the outer loop, y in the inner loop)
\* among the pixels of a set
FirstScanned(pixels) ==
    CHOOSE p \in pixels :
        \A q \in pixels : p[1] < q[1] \/ (p[1] = q[1] /\ p[2] <= q[2])

\* the calls of get_depth_for_color_pixel, at "while not found" with
\* center_depth = 0, found = False, search_radius = 1
DepthCalls ==
    {[op |-> "depth", in |-> [depth_data |-> d, color_point |-> c], pc |-> "search",
      out |-> [search_radius |-> 1, found |-> FALSE, center_depth |-> 0]] :
        d \in DepthFrames, c \in Pixels}

\* one round of "while not found": the window is scanned; the first depth
\* greater than 0 ends the search and is returned, otherwise the radius grows
GetDepthRound ==
    /\ calc.op = "depth"
    /\ calc.pc = "search"
    /\ calc.out.search_radius <= MaxRadius
    /\ LET hits == {p \in SearchWindow(calc.in.color_point, calc.out.search_radius) :
                      calc.in.depth_data[p] > 0} IN
       calc' = IF hits # {}
               THEN [calc EXCEPT !.pc = "done", !.out.found = TRUE,
                                 !.out.center_depth = calc.in.depth_data[FirstScanned(hits)]]
               ELSE [calc EXCEPT !.out.search_radius = @ + 1]
    /\ UNCHANGED prog_vars

\* offset above the grasp point, mm
PRE_GRASP_OFFSET_Z_MM == 100

\* lift distance after the grasp, mm
POST_GRASP_LIFT_Z_MM == 50

DEFAULT_LEFT_GRASP_RPY == <<180, 0, 180>>

DEFAULT_RIGHT_GRASP_RPY == <<180, 0, 0>>

\* object positions in the base frame, mm
BaseCoordinates == {-200, 0, 350} \X {-200, 0, 350} \X {-50, 0, 120}

\* the calls of calculate_grasp_poses; the caller passes no object
\* orientation
PoseCalls ==
    {[op |-> "poses", in |-> [object_base_coordinates_mm |-> c, arm_to_use |-> a],
      pc |-> "call", out |-> None] : c \in BaseCoordinates, a \in Arms}

\* calculate_grasp_poses without an object orientation: the poses
\* <<x, y, z, rx, ry, rz>> before, at and after the grasp
GraspPoses(object_base_coordinates_mm, arm_to_use) ==
    LET grasp_rpy == IF arm_to_use = "left" THEN DEFAULT_LEFT_GRASP_RPY
                     ELSE DEFAULT_RIGHT_GRASP_RPY
        _grasp_pose == object_base_coordinates_mm \o grasp_rpy IN
    [pre_grasp_pose |-> [_grasp_pose EXCEPT ![3] = @ + PRE_GRASP_OFFSET_Z_MM],
     grasp_pose |-> _grasp_pose,
     post_grasp_pose |-> [_grasp_pose EXCEPT ![3] = @ + POST_GRASP_LIFT_Z_MM]]

\* calculate_grasp_poses returns the three poses
CalculateGraspPoses ==
    /\ calc.op = "poses"
    /\ calc.pc = "call"
    /\ calc' = [calc EXCEPT !.pc = "done",
                            !.out = GraspPoses(calc.in.object_base_coordinates_mm,
                                               calc.in.arm_to_use)]
    /\ UNCHANGED prog_vars

\* detection boxes <<x1, y1, x2, y2>> in pixels: centre (320, 240), centre
\* (50, 25) and one whose centre (650, 450) is outside a 640 x 480 frame
BoxInputs == {<<300, 220, 340, 260>>, <<0, 0, 101, 51>>, <<600, 400, 700, 500>>}

\* rgb_fx, rgb_fy, ppx, ppy as the camera parameters give them, a set
\* without focal length included
Intrinsics ==
    {[rgb_fx |-> 600, rgb_fy |-> 600, ppx |-> 320, ppy |-> 240],
     [rgb_fx |-> 500, rgb_fy |-> 520, ppx |-> 310, ppy |-> 250],
     [rgb_fx |-> 0, rgb_fy |-> 600, ppx |-> 320, ppy |-> 240]}

\* the calls of calculate_3d_position_camera_frame, with the depth that
\* get_depth_for_color_pixel returns for the centre; shape is <<h, w>>
ProjectCalls ==
    {[op |-> "project",
      in |-> [detection_box |-> b, shape |-> <<480, 640>>, depth_mm |-> d,
              camera_client |-> k],
      pc |-> "call", out |-> None] :
        b \in BoxInputs, d \in DepthReadings, k \in Intrinsics}

RECURSIVE GCD(_, _)
GCD(a, b) == IF b = 0 THEN a ELSE GCD(b, a % b)

Abs(a) == IF a < 0 THEN -a ELSE a

\* a real number as the fraction <<numerator, denominator>> in lowest terms,
\* the denominator positive
Frac(n, d) ==
    LET g == GCD(Abs(n), d) IN <<n \div g, d \div g>>

FracEq(p, q) == p[1] * q[2] = q[1] * p[2]

\* k * p and p / k for an integer k, k > 0 in p / k
FracTimes(k, p) == Frac(k * p[1], p[2])
FracOver(p, k) == Frac(p[1], p[2] * k)

\* variant of DepthToMeters that keeps the millimetres
DepthToMeters_m(depth_mm) == Frac(depth_mm, 1)

\* "real_z = depth_mm / 1000.0"
DepthToMeters(depth_mm) == Frac(depth_mm, 1000)

\* "int((x1 + x2) / 2)" for coordinates that are not negative
BoxCenter(lo, hi) == (lo + hi) \div 2

\* calculate_3d_position_camera_frame: <<real_x, real_y, real_z>>, or <<>>
\* for None
Position3D(detection_box, shape, depth_mm, camera_client) ==
    LET fx == camera_client.rgb_fx
        fy == camera_client.rgb_fy
        center_x == BoxCenter(detection_box[1], detection_box[3])
        center_y == BoxCenter(detection_box[2], detection_box[4])
        real_z == DepthToMeters(depth_mm) IN
    IF fx = 0 \/ fy = 0 THEN <<>>
    ELSE IF ~(0 <= center_x /\ center_x < shape[2] /\ 0 <= center_y /\ center_y < shape[1])
    THEN <<>>
    ELSE IF depth_mm <= 10 THEN <<>>
    ELSE << FracOver(FracTimes(center_x - camera_client.ppx, real_z), fx),
            FracOver(FracTimes(center_y - camera_client.ppy, real_z), fy),
            real_z >>

\* calculate_3d_position_camera_frame returns
Calculate3DPosition ==
    /\ calc.op = "project"
    /\ calc.pc = "call"
    /\ calc' = [calc EXCEPT !.pc = "done",
                            !.out = Position3D(calc.in.detection_box, calc.in.shape,
                                               calc.in.depth_mm, calc.in.camera_client)]
    /\ UNCHANGED prog_vars

\* the speed of a preset move: self.reset_rpy_speed
reset_rpy_speed == 30

\* what reset_rpy_poses_config.get(key) can give: nothing, a list of some
\* length, or a value of another type (a tuple, a number)
PresetEntries ==
    {[kind |-> "none", len |-> 0],
     [kind |-> "list", len |-> 3],
     [kind |-> "list", len |-> 2],
     [kind |-> "list", len |-> 4],
     [kind |-> "tuple", len |-> 3]}

\* poses getTCPPose can return: x, y, z, rx, ry, rz
TcpPoses == {<<400, -150, 300, 170, 5, -10>>, <<250, 100, 120, 0, 0, 90>>}

\* orientations the conversion desire_left_pose / desire_right_pose can
\* return for the preset; the conversion is code of another package
ConvertedOrientations == {<<180, 0, 90>>, <<-90, 45, 0>>}

\* the invocations of _attempt_reset_rpy_orientation: whether the arm is
\* initialized, the entry of reset_rpy_poses_config for the requested preset,
\* and what the calls made on the way will answer: getTCPPose (a pose,
\* nothing, or an exception), the orientation conversion, the move
ResetCalls ==
    {[op |-> "preset",
      in |-> [is_init_ok |-> i, entry |-> e, pose |-> p, current_pose |-> cp,
              desire |-> d, rpy_angles |-> ra, move |-> m],
      pc |-> "call",
      out |-> [moves |-> 0, reads |-> 0, sent |-> <<>>, result |-> None,
               cue |-> None, status |-> None]] :
        i \in BOOLEAN, e \in PresetEntries,
        p \in {"ok", "None", "raise"}, cp \in TcpPoses,
        d \in {"ok", "raise"}, ra \in ConvertedOrientations,
        m \in {"True", "False", "raise"}}

\* the status message _attempt_reset_rpy_orientation leaves: one text for an
\* arm that is not initialized, one for an invalid or missing preset, one
\* for success and one for a failure inside attempt_reset_arm
ResetStatus(result) ==
    CASE result = "not_ready" -> "not_initialized"
      [] result = "invalid" -> "invalid_preset"
      [] result = "True" -> "success"
      [] OTHER -> "failed"

\* the executor ends: attempt_reset_arm's return value, the audio cue and
\* the status message
ResetEnds(result) ==
    [calc EXCEPT !.pc = "done", !.out.result = result,
                 !.out.cue = IF result = "True" THEN "success" ELSE "fail",
                 !.out.status = ResetStatus(result)]

\* variant of ValidPresetEntry that accepts a list of any length
ValidPresetEntry_m(entry) == ~(entry.kind = "none" \/ entry.kind # "list")

\* the negation of "target_rpy_array is None or not isinstance(
\* target_rpy_array, list) or len(target_rpy_array) != 3"
ValidPresetEntry(entry) ==
    ~(entry.kind = "none" \/ entry.kind # "list" \/ entry.len # 3)

\* _attempt_reset_rpy_orientation up to attempt_reset_arm's getTCPPose call:
\* an arm that is not ready and a missing or malformed preset end the
\* invocation here
AttemptResetBegin ==
    /\ calc.op = "preset"
    /\ calc.pc = "call"
    /\ calc' = IF ~calc.in.is_init_ok THEN ResetEnds("not_ready")
               ELSE IF ~ValidPresetEntry(calc.in.entry) THEN ResetEnds("invalid")
               ELSE [calc EXCEPT !.pc = "pose", !.out.reads = @ + 1]
    /\ UNCHANGED prog_vars

\* variant of PoseUsable that goes on with a pose that is None
PoseUsable_m(pose) == pose # "raise"

\* "current_pose = controller.getTCPPose()" did not raise and
\* "current_pose is None" is false
PoseUsable(pose) == pose = "ok"

\* variant of TargetPose that sends the arm to the origin
TargetPose_m(current_pose, rpy_angles) == <<0, 0, 0>> \o rpy_angles

\* "target_pose = list(current_pose); target_pose[3:6] = rpy_angles"
TargetPose(current_pose, rpy_angles) ==
    SubSeq(current_pose, 1, 3) \o rpy_angles
        \o SubSeq(current_pose, 7, Len(current_pose))

\* getTCPPose returns: without a pose, or when the read or the orientation
\* conversion raises, the executor returns False; otherwise the target pose
\* is built and the blocking move call is made with it
AttemptResetPoseReturn ==
    /\ calc.op = "preset"
    /\ calc.pc = "pose"
    /\ calc' = IF ~PoseUsable(calc.in.pose) \/ calc.in.desire # "ok"
               THEN ResetEnds("False")
               ELSE [calc EXCEPT
                       !.pc = "move",
                       !.out.moves = @ + 1,
                       !.out.sent = Append(@,
                           [target_pose |-> TargetPose(calc.in.current_pose,
                                                       calc.in.rpy_angles),
                            speed |-> reset_rpy_speed,
                            block |-> TRUE])]
    /\ UNCHANGED prog_vars

\* variant of AfterResetMove that repeats a move that returned False
AfterResetMove_m(success) ==
    IF success = "False" /\ calc.out.moves < 2
    THEN [calc EXCEPT !.out.moves = @ + 1]
    ELSE ResetEnds(IF success = "True" THEN "True" ELSE "False")

\* after "success = move_method(target_pose, speed=reset_speed, block=True)":
\* the executor returns True or False; an exception of the move is caught
\* and gives False
AfterResetMove(success) == ResetEnds(IF success = "True" THEN "True" ELSE "False")

\* the blocking move returns
AttemptResetMoveReturn ==
    /\ calc.op = "preset"
    /\ calc.pc = "move"
    /\ calc' = AfterResetMove(calc.in.move)
    /\ UNCHANGED prog_vars

\* ---- the velocity synthesizer of a control tick ----

\* DualArmController.rpy_speed, in the unit of the other speeds
rpy_speed == 1
\* the axis threshold config gives a binding without one
\* (DEFAULT_TRIGGER_THRESHOLD = 0.1), in hundredths of full deflection
trigger_threshold == 10
\* UIManager.num_buttons, num_axes, num_hats of the connected device
num_buttons == 2
num_axes == 2
num_hats == 1

\* joystick.get_axis: values in hundredths of full deflection, among them
\* the threshold itself on both sides
AxisReadings == {-50, -10, 0, 10, 50}
\* joystick.get_hat: (x, y)
HatReadings == {<<-1, 0>>, <<0, 0>>, <<1, 0>>, <<0, 1>>}

\* the states of the connected device
DeviceStates ==
    [button : [0..(num_buttons - 1) -> {0, 1}],
     axis   : [0..(num_axes - 1) -> AxisReadings],
     hat    : [0..(num_hats - 1) -> HatReadings]]

\* an entry of controls_map: the action name, split at its underscores, and
\* the control configuration
Binding(action, type, index, direction) ==
    [action |-> action, is_dict |-> TRUE, type |-> type, index |-> index,
     direction |-> direction, threshold |-> trigger_threshold, axis |-> "x"]

\* binding tables: one with jog bindings of every kind for both arms and
\* both jog modes, with indexes inside and outside the device's range; one
\* whose names and configurations disagree or collide; the empty one
ControlsMaps ==
    {<<Binding(<<"xyz", "left", "arm", "x", "pos">>, "axis", 0, 1),
       Binding(<<"xyz", "left", "arm", "x", "neg">>, "axis", 0, -1),
       Binding(<<"xyz", "left", "arm", "y", "pos">>, "axis", 1, 1),
       Binding(<<"xyz", "left", "arm", "y", "neg">>, "axis", 1, -1),
       Binding(<<"xyz", "left", "arm", "z", "pos">>, "button", 0, 1),
       Binding(<<"xyz", "right", "arm", "x", "pos">>, "hat", 0, 1),
       Binding(<<"xyz", "right", "arm", "x", "neg">>, "hat", 0, -1),
       [Binding(<<"xyz", "right", "arm", "y", "pos">>, "hat", 0, 1) EXCEPT !.axis = "y"],
       Binding(<<"xyz", "right", "arm", "z", "neg">>, "button", 1, 1),
       Binding(<<"rpy", "left", "arm", "roll", "pos">>, "axis", 0, 1),
       Binding(<<"rpy", "left", "arm", "pitch", "neg">>, "axis", 1, -1),
       Binding(<<"rpy", "right", "arm", "yaw", "pos">>, "button", 0, 1),
       Binding(<<"rpy", "right", "arm", "roll", "neg">>, "hat", 0, -1),
       Binding(<<"mode", "switch", "button">>, "button", 1, 1)>>,
     <<Binding(<<"xyz", "left", "arm", "x", "pos">>, "axis", 0, -1),
       Binding(<<"xyz", "left", "arm", "x">>, "button", 0, 1),
       Binding(<<"xyz", "right", "arm", "z", "pos">>, "button", 2, 1),
       Binding(<<"xyz", "right", "arm", "y", "neg">>, "axis", -1, -1),
       Binding(<<"xyz", "right", "arm", "x", "neg">>, "hat", 1, -1),
       Binding(<<"xyz", "both", "arm", "x", "pos">>, "button", 1, 1),
       [Binding(<<"xyz", "left", "arm", "z", "neg">>, "button", 1, 1) EXCEPT !.is_dict = FALSE],
       Binding(<<"xyz", "left", "arm", "z", "neg">>, "key", 1, 1),
       Binding(<<"rpy", "left", "arm", "yaw", "neg">>, "axis", 2, -1),
       Binding(<<"rpy", "right", "arm", "pitch", "pos">>, "button", 5, 1),
       Binding(<<"rpy", "right", "arm", "roll", "pos">>, "hat", -1, 1),
       Binding(<<"rpy", "right", "arm", "yaw", "neg">>, "axis", 1, 1),
       Binding(<<"rpy", "left", "arm", "roll", "pos">>, "button", 1, 1)>>,
     <<>>}

\* the invocations of the synthesizer: mode, binding table, device state,
\* whether a joystick is connected, and the rotation correction: available,
\* not importable (R is None), or raising
SynthCalls ==
    {[op |-> "synth",
      in |-> [mode |-> m, controls_map |-> t, device |-> d, joystick |-> j, rotation |-> r],
      pc |-> "call",
      out |-> [active |-> <<>>, raised |-> FALSE,
               cmd |-> <<>>, final |-> <<>>]] :
        m \in {MODE_XYZ, MODE_RPY, MODE_RESET, MODE_VISION},
        t \in ControlsMaps, d \in DeviceStates, j \in {TRUE},
        r \in {"ok", "None", "raise"}}
    \cup
    {[op |-> "synth",
      in |-> [mode |-> m, controls_map |-> t,
              device |-> [button |-> [i \in 0..(num_buttons - 1) |-> 1],
                          axis |-> [i \in 0..(num_axes - 1) |-> 50],
                          hat |-> [i \in 0..(num_hats - 1) |-> <<1, 0>>]],
              joystick |-> FALSE, rotation |-> "ok"],
      pc |-> "call",
      out |-> [active |-> <<>>, raised |-> FALSE,
               cmd |-> <<>>, final |-> <<>>]] :
        m \in {MODE_XYZ, MODE_RPY, MODE_RESET, MODE_VISION},
        t \in ControlsMaps}

\* np.zeros(6)
Zeros6 == <<0, 0, 0, 0, 0, 0>>

\* variant of IndexInRange without the upper limit
IndexInRange_m(ctrl_index, count) == 0 <= ctrl_index

\* "0 <= ctrl_index < self.num_buttons" (num_axes, num_hats)
IndexInRange(ctrl_index, count) == 0 <= ctrl_index /\ ctrl_index < count

\* variant of AxisActive that compares the absolute value with the threshold
AxisActive_m(axis_val, threshold, direction) ==
    (direction = 1 \/ direction = -1) /\ (axis_val > threshold \/ axis_val < -threshold)

\* "(direction == 1 and axis_val > threshold) or (direction == -1 and
\* axis_val < -threshold)"
AxisActive(axis_val, threshold, direction) ==
    \/ direction = 1 /\ axis_val > threshold
    \/ direction = -1 /\ axis_val < -threshold

\* UIManager.get_joystick_input_state(control_config) without an event:
\* "active", "inactive", or "raise" when the device is read at an index it
\* does not have
GetJoystickInputState(cfg, device) ==
    CASE cfg.type = "button" ->
           IF ~IndexInRange(cfg.index, num_buttons) THEN "inactive"
           ELSE IF cfg.index \notin DOMAIN device.button THEN "raise"
           ELSE IF device.button[cfg.index] = 1 THEN "active" ELSE "inactive"
      [] cfg.type = "axis" ->
           IF ~IndexInRange(cfg.index, num_axes) THEN "inactive"
           ELSE IF cfg.index \notin DOMAIN device.axis THEN "raise"
           ELSE IF AxisActive(device.axis[cfg.index], cfg.threshold, cfg.direction)
                THEN "active" ELSE "inactive"
      [] cfg.type = "hat" ->
           IF ~IndexInRange(cfg.index, num_hats) THEN "inactive"
           ELSE IF cfg.index \notin DOMAIN device.hat THEN "raise"
           ELSE IF \/ cfg.axis = "x" /\ device.hat[cfg.index][1] = cfg.direction
                   \/ cfg.axis = "y" /\ device.hat[cfg.index][2] = cfg.direction
                THEN "active" ELSE "inactive"
      [] OTHER -> "inactive"

\* "'_<part>' in action": a part of the name after the first is <part>
ActionHas(action, part) == \E i \in 2..Len(action) : action[i] = part

\* "'<arm>_arm' in action"
ActionNamesArm(action, arm) ==
    \E i \in 1..(Len(action) - 1) : action[i] = arm /\ action[i + 1] = "arm"

\* control_mode.lower()
Lower(mode) ==
    CASE mode = MODE_XYZ -> "xyz"
      [] mode = MODE_RPY -> "rpy"
      [] mode = MODE_RESET -> "reset"
      [] mode = MODE_VISION -> "vision"

\* "action.startswith(current_mode_prefix) and ('_arm' in action)"
ActionOfMode(action, mode) ==
    /\ Len(action) > 1
    /\ action[1] = Lower(mode)
    /\ ActionHas(action, "arm")

\* "direction = 1.0 if '_pos' in action else -1.0 if '_neg' in action else 1.0"
ActionDirection(action) ==
    IF ActionHas(action, "pos") THEN 1
    ELSE IF ActionHas(action, "neg") THEN -1 ELSE 1

\* axis_idx of the component an action drives in a mode, -1 for none
ActionAxisIdx(action, mode) ==
    IF mode = MODE_XYZ
    THEN IF ActionHas(action, "x") THEN 0
         ELSE IF ActionHas(action, "y") THEN 1
         ELSE IF ActionHas(action, "z") THEN 2 ELSE -1
    ELSE IF mode = MODE_RPY
    THEN IF ActionHas(action, "roll") THEN 3
         ELSE IF ActionHas(action, "pitch") THEN 4
         ELSE IF ActionHas(action, "yaw") THEN 5 ELSE -1
    ELSE -1

\* base_speed of a component
BaseSpeed(axis_idx, speed_xy, speed_z) ==
    IF axis_idx \in {0, 1} THEN speed_xy
    ELSE IF axis_idx = 2 THEN speed_z ELSE rpy_speed

\* the magnitude of an active binding, in hundredths: abs(axis_val) for an
\* axis (0 when the read raises), 1 for every other control
Magnitude(cfg, device) ==
    IF cfg.type = "axis"
    THEN IF cfg.index \in DOMAIN device.axis
         THEN (IF device.axis[cfg.index] < 0 THEN -device.axis[cfg.index]
               ELSE device.axis[cfg.index])
         ELSE 0
    ELSE 100

\* the body of the loop over controls_map for the entry at position k: acc
\* holds speed_left_cmd, speed_right_cmd (hundredths of a speed unit), the
\* answers of get_joystick_input_state so far, and whether it raised
SynthEntry(in, speed_xy, speed_z, k, acc) ==
    LET b == in.controls_map[k]
        skipped == [acc EXCEPT !.active = Append(@, "skipped")]
    IN  IF acc.raised THEN acc
        ELSE IF ~b.is_dict \/ ~ActionOfMode(b.action, in.mode) THEN skipped
        ELSE LET state == GetJoystickInputState(b, in.device)
                 seen == [acc EXCEPT !.active = Append(@, state)]
                 arm == IF ActionNamesArm(b.action, "left") THEN "left"
                        ELSE IF ActionNamesArm(b.action, "right") THEN "right"
                        ELSE None
                 axis_idx == ActionAxisIdx(b.action, in.mode)
             IN  IF state = "raise" THEN [seen EXCEPT !.raised = TRUE]
                 ELSE IF state = "inactive" \/ arm = None \/ axis_idx = -1 THEN seen
                 ELSE [seen EXCEPT
                         !.cmd[arm][axis_idx + 1] =
                             BaseSpeed(axis_idx, speed_xy, speed_z)
                                 * Magnitude(b, in.device)
                                 * ActionDirection(b.action)]

RECURSIVE SynthLoop(_, _, _, _, _)
\* the loop over controls_map.items(), in the order of the table
SynthLoop(in, speed_xy, speed_z, k, acc) ==
    IF k > Len(in.controls_map) THEN acc
    ELSE SynthLoop(in, speed_xy, speed_z, k + 1,
                   SynthEntry(in, speed_xy, speed_z, k, acc))

\* "self.control_mode in [config.MODE_XYZ, config.MODE_RPY]"
JogModes == {MODE_XYZ, MODE_RPY}

\* variant of SpeedCommands that resolves the Cartesian bindings in every mode
SpeedCommands_m(in, speed_xy, speed_z) ==
    SynthLoop([in EXCEPT !.mode = MODE_XYZ], speed_xy, speed_z, 1,
              [active |-> <<>>, raised |-> FALSE, cmd |-> [a \in Arms |-> Zeros6]])

\* _calculate_speed_commands
SpeedCommands(in, speed_xy, speed_z) ==
    LET zero == [active |-> <<>>, raised |-> FALSE,
                 cmd |-> [a \in Arms |-> Zeros6]]
    IN  IF ~in.joystick \/ in.mode \notin JogModes THEN zero
        ELSE SynthLoop(in, speed_xy, speed_z, 1, zero)

\* R.from_euler('xyz', [65, 0, 10], degrees=True).as_matrix() and
\* R.from_euler('xyz', [65.334, -4.208, -9.079], degrees=True).as_matrix(),
\* in thousandths
RotationCorrection ==
    [left  |-> <<<<985, -73, 157>>, <<174, 416, -893>>, <<0, 906, 423>>>>,
     right |-> <<<<985, 0, -174>>, <<-157, 423, -893>>, <<73, 906, 416>>>>]

\* "cmd[:3] @ rot", rounded to the unit of cmd
Rotated(cmd, rot) ==
    [i \in 1..3 |->
        (cmd[1] * rot[1][i] + cmd[2] * rot[2][i] + cmd[3] * rot[3][i] + 500) \div 1000]

\* variant of FinalVector that forces the orientation to zero in both jog
\* modes
FinalVector_m(mode, rotation, arm, cmd) ==
    IF mode = MODE_XYZ THEN <<cmd[1], cmd[2], cmd[3], 0, 0, 0>> ELSE Zeros6

\* _apply_transformations for one arm
FinalVector(mode, rotation, arm, cmd) ==
    IF rotation = "None" THEN cmd
    ELSE IF mode = MODE_XYZ
    THEN LET t == IF rotation = "raise" THEN <<0, 0, 0>>
                  ELSE Rotated(cmd, RotationCorrection[arm])
         IN  <<t[1], t[2], t[3], 0, 0, 0>>
    ELSE IF mode = MODE_RPY
    THEN <<0, 0, 0, cmd[4], cmd[5], cmd[6]>>
    ELSE Zeros6

\* speed_left_cmd, speed_right_cmd = self._calculate_speed_commands()
CalculateSpeedCommands ==
    /\ calc.op = "synth"
    /\ calc.pc = "call"
    /\ LET r == SpeedCommands(calc.in, current_speed_xy, current_speed_z)
       IN  calc' = [calc EXCEPT
                      !.pc = IF r.raised THEN "raised" ELSE "transform",
                      !.out.active = r.active,
                      !.out.raised = r.raised,
                      !.out.cmd = r.cmd]
    /\ UNCHANGED prog_vars

\* speed_left_final, speed_right_final = self._apply_transformations(...)
ApplyTransformations ==
    /\ calc.op = "synth"
    /\ calc.pc = "transform"
    /\ calc' = [calc EXCEPT
                  !.pc = "done",
                  !.out.final = [a \in Arms |->
                      FinalVector(calc.in.mode, calc.in.rotation, a, calc.out.cmd[a])]]
    /\ UNCHANGED prog_vars

\* ---- the dispatch of a control tick ----

\* the ticks of the control loop that are followed: two consecutive ones
\* with the same input
Ticks == {1, 2}

\* final vectors handed to the dispatch, in hundredths of a speed unit: no
\* motion, a Cartesian velocity, two orientation components of opposite
\* sign, one orientation component
FinalVectors ==
    {<<0, 0, 0, 0, 0, 0>>, <<98, -17, 42, 0, 0, 0>>,
     <<0, 0, 0, 100, -100, 0>>, <<0, 0, 0, 0, 0, -50>>}

\* the runs of the per-tick path of run_main_loop: the mode, which arms are
\* initialized, the final vectors of the ticks, and the ticks in which the
\* controller of an arm raises on every call it receives
DispatchCalls ==
    {[op |-> "dispatch",
      in |-> [mode |-> m, init_ok |-> i, final |-> [left |-> l, right |-> r],
              failing |-> f],
      pc |-> "call",
      out |-> [tick |-> 0, calls |-> <<>>]] :
        m \in {MODE_XYZ, MODE_RPY, MODE_RESET, MODE_VISION},
        i \in [Arms -> BOOLEAN], l \in FinalVectors, r \in FinalVectors,
        f \in SUBSET (Ticks \X Arms)}

\* a call received by the controller of an arm
RobotCall(tick, arm, call, index, speed_vector, raised) ==
    [tick |-> tick, arm |-> arm, call |-> call, index |-> index,
     speed_vector |-> speed_vector, raised |-> raised]

RECURSIVE JogPulses(_, _)
\* the jog indexes send_jog_command works through from component i on:
\* 2i for a component above the dead band, 2i + 1 for one below it (the dead
\* band of 0.05 is smaller than the unit of the vectors here)
JogPulses(speed_vector, i) ==
    IF i > 5 THEN <<>>
    ELSE (IF speed_vector[i + 1] > 0 THEN <<2 * i>>
          ELSE IF speed_vector[i + 1] < 0 THEN <<2 * i + 1>>
          ELSE <<>>) \o JogPulses(speed_vector, i + 1)

\* the jog calls send_jog_command makes: all six components are inside one
\* try statement, so a call that raises ends the function
JogIssued(pulses, failing) ==
    IF failing /\ pulses # <<>> THEN <<Head(pulses)>> ELSE pulses

\* send_jog_command(controller, speed_vector, min_speed, max_speed)
SendJogCommand(tick, arm, speed_vector, failing) ==
    LET issued == JogIssued(JogPulses(speed_vector, 0), failing)
    IN  [k \in 1..Len(issued) |->
            RobotCall(tick, arm, "jog", issued[k], speed_vector, failing)]

\* variant of SendsVelocity that sends nothing for a zero vector
SendsVelocity_m(init_ok, speed_vector) ==
    init_ok /\ speed_vector # <<0, 0, 0, 0, 0, 0>>

\* "if self.left_init_ok and self.controller_left:" in MODE_XYZ
SendsVelocity(init_ok, speed_vector) == init_ok

\* the calls _send_robot_commands makes for one arm
ArmCommands(in, tick, arm) ==
    IF in.mode = MODE_XYZ
    THEN IF SendsVelocity(in.init_ok[arm], in.final[arm])
         THEN <<RobotCall(tick, arm, "moveBySpeedl", -1, in.final[arm],
                          <<tick, arm>> \in in.failing)>>
         ELSE <<>>
    ELSE IF in.mode = MODE_RPY /\ in.init_ok[arm]
    THEN SendJogCommand(tick, arm, in.final[arm], <<tick, arm>> \in in.failing)
    ELSE <<>>

\* variant of SendRobotCommands with one try statement around both arms
SendRobotCommands_m(in, tick) ==
    LET left == ArmCommands(in, tick, "left")
    IN  IF \E k \in 1..Len(left) : left[k].raised THEN left
        ELSE left \o ArmCommands(in, tick, "right")

\* _send_robot_commands: the left arm, then the right arm, each call to
\* moveBySpeedl in a try statement of its own, send_jog_command catching
\* what its calls raise
SendRobotCommands(in, tick) ==
    ArmCommands(in, tick, "left") \o ArmCommands(in, tick, "right")

\* one pass of the loop of run_main_loop after the vectors are computed
DispatchTick ==
    /\ calc.op = "dispatch"
    /\ calc.pc \in {"call", "tick"}
    /\ calc.out.tick + 1 \in Ticks
    /\ calc' = [calc EXCEPT
                  !.pc = IF calc.out.tick + 2 \in Ticks THEN "tick" ELSE "done",
                  !.out.tick = @ + 1,
                  !.out.calls =
                      IF /\ calc.in.mode \in {MODE_XYZ, MODE_RPY}
                         /\ \E a \in Arms : calc.in.init_ok[a]
                      THEN @ \o SendRobotCommands(calc.in, calc.out.tick + 1)
                      ELSE @]
    /\ UNCHANGED prog_vars

\* ---- the upload of a recorded clip to the audio server ----

\* longest file name followed
MaxNameLen == 2
\* mock_audio_server.BUFFER_SIZE and MAX_METADATA_LENGTH
BUFFER_SIZE == 4096
MAX_METADATA_LENGTH == 1024

\* the line feed and the characters a file name is made of here: a letter,
\* the separator of the metadata line, a line feed, an underscore
LF == "LF"
NameChars == {"a", ":", LF, "_"}
AudioFilenames == UNION {[1..n -> NameChars] : n \in 1..MaxNameLen}

\* the bytes of a clip, among them the byte values of ':' and of the line
\* feed; clips of 0, 1 and 2 bytes, and one of 12 bytes
ClipBytes == {"x", ":", LF}
AudioClips ==
    UNION {[1..n -> ClipBytes] : n \in 0..2}
        \cup {<<"x", LF, "x", "x", ":", "x", "x", "x", "x", "x", LF, "x">>}

\* the uploads: the name of the clip's file and the bytes in it
UploadCalls ==
    {[op |-> "upload",
      in |-> [filename |-> f, clip |-> c],
      pc |-> "call",
      out |-> [sent |-> <<>>, read |-> 0, metadata_buffer |-> <<>>,
               server |-> "metadata", client_audio_filesize |-> -1,
               file |-> <<>>]] :
        f \in AudioFilenames, c \in AudioClips}

\* the decimal digits of a natural number: f"{filesize}"
DecimalDigit(d) == <<"0", "1", "2", "3", "4", "5", "6", "7", "8", "9">>[d + 1]
RECURSIVE Decimal(_)
Decimal(n) ==
    IF n < 10 THEN <<DecimalDigit(n)>>
    ELSE Append(Decimal(n \div 10), DecimalDigit(n % 10))

\* the value of a decimal digit, -1 for another character
DigitValue(c) ==
    IF \E d \in 0..9 : DecimalDigit(d) = c
    THEN CHOOSE d \in 0..9 : DecimalDigit(d) = c
    ELSE -1

RECURSIVE ParseDecimal(_, _)
\* int(text) for a text of decimal digits, read from the left with the value
\* so far; -1 stands for the ValueError of any other text
ParseDecimal(text, acc) ==
    IF text = <<>> THEN acc
    ELSE IF DigitValue(Head(text)) = -1 THEN -1
    ELSE ParseDecimal(Tail(text), 10 * acc + DigitValue(Head(text)))
ParseInt(text) == IF text = <<>> THEN -1 ELSE ParseDecimal(text, 0)

\* variant of FilenameSafe that leaves the separator in the name
FilenameSafe_m(filename) ==
    [i \in 1..Len(filename) |-> IF filename[i] = LF THEN "_" ELSE filename[i]]

\* filename.replace("\n", "_").replace(":", "_")
FilenameSafe(filename) ==
    [i \in 1..Len(filename) |-> IF filename[i] \in {LF, ":"} THEN "_" ELSE filename[i]]

\* metadata = f"{filename_safe}:{filesize}\n"
Metadata(filename, filesize) ==
    FilenameSafe(filename) \o <<":">> \o Decimal(filesize) \o <<LF>>

\* the positions of a character in a text
Positions(text, c) == {i \in 1..Len(text) : text[i] = c}

\* the client sends the metadata line: sock.sendall(metadata.encode())
ClientSendMetadata ==
    /\ calc.op = "upload"
    /\ calc.pc = "call"
    /\ calc' = [calc EXCEPT
                  !.pc = "file",
                  !.out.sent = Metadata(calc.in.filename, Len(calc.in.clip))]
    /\ UNCHANGED prog_vars

\* the client sends the file: the loop of f.read(BUFFER_SIZE) and
\* sock.sendall(bytes_read) up to the end of the file
ClientSendFile ==
    /\ calc.op = "upload"
    /\ calc.pc = "file"
    /\ calc' = [calc EXCEPT !.pc = "sent", !.out.sent = @ \o calc.in.clip]
    /\ UNCHANGED prog_vars

\* handle_client after metadata_buffer changed, up to its next recv: the
\* metadata line is cut at the first line feed, split at ':' and its second
\* part converted; the rest of the buffer is the beginning of the file
ServerAfterMetadata(out) ==
    IF Positions(out.metadata_buffer, LF) = {}
    THEN IF Len(out.metadata_buffer) >= MAX_METADATA_LENGTH
         THEN [out EXCEPT !.server = "rejected"]
         ELSE out
    ELSE LET nl == CHOOSE i \in Positions(out.metadata_buffer, LF) :
                       \A j \in Positions(out.metadata_buffer, LF) : i <= j
             metadata_str == SubSeq(out.metadata_buffer, 1, nl - 1)
             rest == SubSeq(out.metadata_buffer, nl + 1, Len(out.metadata_buffer))
             colons == Positions(metadata_str, ":")
             colon == CHOOSE i \in colons : TRUE
             size == ParseInt(SubSeq(metadata_str, colon + 1, Len(metadata_str)))
         IN  IF Cardinality(colons) # 1 THEN [out EXCEPT !.server = "rejected"]
             ELSE IF size = -1 THEN [out EXCEPT !.server = "rejected"]
             ELSE [out EXCEPT
                     !.metadata_buffer = rest,
                     !.client_audio_filesize = size,
                     !.file = rest,
                     !.server = IF Len(rest) = size THEN "accepted"
                                ELSE IF Len(rest) > size THEN "incomplete"
                                ELSE "content"]

\* the server receives: conn.recv returns some of the bytes that were sent
\* and not yet read, at most BUFFER_SIZE of them and, while the file is
\* received, at most the bytes still missing
ServerRecv ==
    /\ calc.op = "upload"
    /\ calc.out.server \in {"metadata", "content"}
    /\ \E n \in 1..(Len(calc.out.sent) - calc.out.read) :
         LET chunk == SubSeq(calc.out.sent, calc.out.read + 1, calc.out.read + n)
             got == [calc.out EXCEPT !.read = @ + n]
         IN  /\ n <= BUFFER_SIZE
             /\ IF calc.out.server = "metadata"
                THEN calc' = [calc EXCEPT !.out =
                        ServerAfterMetadata([got EXCEPT !.metadata_buffer = @ \o chunk])]
                ELSE /\ n <= calc.out.client_audio_filesize - Len(calc.out.file)
                     /\ calc' = [calc EXCEPT !.out =
                           [got EXCEPT
                              !.file = @ \o chunk,
                              !.server = IF Len(calc.out.file) + n = calc.out.client_audio_filesize
                                         THEN "accepted" ELSE "content"]]
    /\ UNCHANGED prog_vars

(***************************************************************************)
(* Arm initialization (_init_robots, initialize_robot, connect_arm_gripper) *)
(***************************************************************************)
\* what a call on the arm's client does: it returns True or False, or raises
ClientOutcomes == {"True", "False", "raise"}

\* one arm's block of _init_robots with the outcome of each client call;
\* left_init_ok/right_init_ok and the gripper flag start False, all_ok True
InitCalls ==
    {[op |-> "init",
      in |-> [connect |-> c, power_on |-> p, clearAlarm |-> a,
              setMotorStatus |-> m, set_servo |-> e, connect_gripper |-> g],
      pc |-> "connect",
      out |-> [calls |-> <<>>, result |-> "None", init_ok |-> FALSE,
               gripper_active |-> FALSE, all_ok |-> TRUE]] :
        c \in ClientOutcomes, p \in ClientOutcomes, a \in {"True", "raise"},
        m \in ClientOutcomes, e \in ClientOutcomes, g \in ClientOutcomes}

\* initialize_robot returns False (a RuntimeError or an exception of the
\* client, both caught): init_ok stays False and all_ok &= False
InitializeFailed(call) ==
    [calc EXCEPT !.pc = "done",
                 !.out.calls = Append(@, call),
                 !.out.result = "False",
                 !.out.init_ok = FALSE,
                 !.out.all_ok = FALSE]

\* a call of initialize_robot returned and the next one follows
InitializeNext(call, next) ==
    [calc EXCEPT !.pc = next, !.out.calls = Append(@, call)]

\* controller.connect(): initialize_robot runs only on a connected arm; a
\* failed or raising connect clears all_ok
InitRobotsConnect ==
    /\ calc.op = "init"
    /\ calc.pc = "connect"
    /\ calc' = IF calc.in.connect = "True"
               THEN InitializeNext("connect", "power_on")
               ELSE [calc EXCEPT !.pc = "done",
                                 !.out.calls = Append(@, "connect"),
                                 !.out.all_ok = FALSE]
    /\ UNCHANGED prog_vars

\* step 1/4: if not controller.power_on(): raise RuntimeError
PowerOnReturn ==
    /\ calc.op = "init"
    /\ calc.pc = "power_on"
    /\ calc' = IF calc.in.power_on = "True"
               THEN InitializeNext("power_on", "clearAlarm")
               ELSE InitializeFailed("power_on")
    /\ UNCHANGED prog_vars

\* step 2/4: controller.clearAlarm(), its value is not looked at
ClearAlarmReturn ==
    /\ calc.op = "init"
    /\ calc.pc = "clearAlarm"
    /\ calc' = IF calc.in.clearAlarm = "raise"
               THEN InitializeFailed("clearAlarm")
               ELSE InitializeNext("clearAlarm", "setMotorStatus")
    /\ UNCHANGED prog_vars

\* step 3/4: if not controller.setMotorStatus(): a warning is printed and
\* the function goes on to step 4
SetMotorStatusReturn ==
    /\ calc.op = "init"
    /\ calc.pc = "setMotorStatus"
    /\ calc' = IF calc.in.setMotorStatus = "raise"
               THEN InitializeFailed("setMotorStatus")
               ELSE InitializeNext("setMotorStatus", "set_servo")
    /\ UNCHANGED prog_vars

\* step 4/4: if not controller.set_servo(1): raise RuntimeError; otherwise
\* initialize_robot returns True, init_ok is set and connect_arm_gripper is
\* called
SetServoReturn ==
    /\ calc.op = "init"
    /\ calc.pc = "set_servo"
    /\ calc' = IF calc.in.set_servo = "True"
               THEN [calc EXCEPT !.pc = "connect_gripper",
                                 !.out.calls = Append(@, "set_servo"),
                                 !.out.result = "True",
                                 !.out.init_ok = TRUE]
               ELSE InitializeFailed("set_servo")
    /\ UNCHANGED prog_vars

\* connect_arm_gripper: True when connect_gripper returned True, False when
\* it returned False or raised
ConnectGripperReturn ==
    /\ calc.op = "init"
    /\ calc.pc = "connect_gripper"
    /\ calc' = [calc EXCEPT !.pc = "done",
                            !.out.calls = Append(@, "connect_gripper"),
                            !.out.gripper_active = (calc.in.connect_gripper = "True")]
    /\ UNCHANGED prog_vars

(***************************************************************************)
(* One-shot preset controls (get_joystick_input_state with an event,        *)
(* handle_events in RESET mode)                                             *)
(***************************************************************************)
\* most executions of one preset that are followed while its control is held
MaxRepeats == 2

\* a preset control of the configuration file; an axis control may carry a
\* threshold of its own
PresetControl(type, index, direction, threshold) ==
    [action |-> <<"reset">>, is_dict |-> TRUE, type |-> type, index |-> index,
     direction |-> direction, threshold |-> threshold, axis |-> "x"]

\* the first controls of the elif chain of handle_events, in its order: two
\* buttons; a button and an axis; the same button for two presets; one axis
\* direction for two presets, at half and at full deflection
PresetControls ==
    {<<PresetControl("button", 0, 1, trigger_threshold),
       PresetControl("button", 1, 1, trigger_threshold)>>,
     <<PresetControl("button", 0, 1, trigger_threshold),
       PresetControl("axis", 0, 1, trigger_threshold)>>,
     <<PresetControl("button", 0, 1, trigger_threshold),
       PresetControl("button", 0, 1, trigger_threshold)>>,
     <<PresetControl("axis", 0, 1, trigger_threshold),
       PresetControl("axis", 0, 1, 50)>>}

\* the device while the presets are used: both buttons, and the first axis
\* at rest and at half deflection (beyond the default threshold, not beyond
\* the threshold of 50)
PresetDevices ==
    {d \in DeviceStates :
        /\ d.axis[0] \in {0, 50}
        /\ d.axis[1] = 0
        /\ d.hat[0] = <<0, 0>>}

\* action_key: ('button', index), ('axis', index, direction) or
\* ('hat', index, axis, direction), written with all four places
ActionKey(cfg) ==
    CASE cfg.type = "button" -> <<"button", cfg.index, "", 0>>
      [] cfg.type = "axis"   -> <<"axis", cfg.index, "", cfg.direction>>
      [] OTHER               -> <<"hat", cfg.index, cfg.axis, cfg.direction>>

\* the keys action_triggered_flags can hold under a configuration
ActionKeys(cfgs) == {ActionKey(cfgs[i]) : i \in 1..Len(cfgs)}

\* the count of the device for a control type
DeviceCount(type) ==
    CASE type = "button" -> num_buttons
      [] type = "axis"   -> num_axes
      [] OTHER           -> num_hats

\* get_joystick_input_state(cfg, event): the value returned and the flags it
\* leaves.  An index outside the device returns False before the flags; an
\* active control returns True and sets its flag when the flag was not set;
\* an inactive control clears the flag of its key when the key is present
OneShot(cfg, device, flags) ==
    LET key == ActionKey(cfg) IN
    IF ~IndexInRange(cfg.index, DeviceCount(cfg.type))
    THEN [fires |-> FALSE, flags |-> flags]
    ELSE IF GetJoystickInputState(cfg, device) = "active"
         THEN IF flags[key] # "True"
              THEN [fires |-> TRUE, flags |-> [flags EXCEPT ![key] = "True"]]
              ELSE [fires |-> FALSE, flags |-> flags]
         ELSE IF flags[key] # "absent"
              THEN [fires |-> FALSE, flags |-> [flags EXCEPT ![key] = "False"]]
              ELSE [fires |-> FALSE, flags |-> flags]

\* the elif chain of the RESET branch from control i on: the controls are
\* asked in order up to the first that fires; 0 when none fires
RECURSIVE ResetChain(_, _, _, _)
ResetChain(cfgs, i, device, flags) ==
    IF i > Len(cfgs) THEN [fired |-> 0, flags |-> flags]
    ELSE LET r == OneShot(cfgs[i], device, flags) IN
         IF r.fires THEN [fired |-> i, flags |-> r.flags]
         ELSE ResetChain(cfgs, i + 1, device, r.flags)

\* the controller in RESET mode with an empty action_triggered_flags and the
\* device at some state; held counts, for each preset, its executions since
\* its control was last inactive
PresetEventCalls ==
    {[op |-> "presets",
      in |-> [controls |-> cfgs],
      pc |-> "events",
      out |-> [device |-> d,
               flags |-> [k \in ActionKeys(cfgs) |-> "absent"],
               held |-> [i \in 1..Len(cfgs) |-> 0],
               executed |-> 0]] :
        cfgs \in PresetControls, d \in PresetDevices}

\* the user moves a control: the device takes another state
DeviceChange ==
    /\ calc.op = "presets"
    /\ \E d \in PresetDevices \ {calc.out.device} :
         calc' = [calc EXCEPT
                    !.out.device = d,
                    !.out.executed = 0,
                    !.out.held = [i \in DOMAIN calc.out.held |->
                                    IF GetJoystickInputState(calc.in.controls[i], d) = "active"
                                    THEN calc.out.held[i] ELSE 0]]
    /\ UNCHANGED prog_vars

\* handle_events takes one event from the queue in RESET mode: the chain is
\* run against the state the device has now, and the preset of the control
\* that fired is executed
HandleResetEvent ==
    /\ calc.op = "presets"
    /\ \A i \in DOMAIN calc.out.held : calc.out.held[i] < MaxRepeats
    /\ LET r == ResetChain(calc.in.controls, 1, calc.out.device, calc.out.flags) IN
       calc' = [calc EXCEPT
                  !.out.flags = r.flags,
                  !.out.executed = r.fired,
                  !.out.held = IF r.fired = 0 THEN @
                               ELSE [@ EXCEPT ![r.fired] = @ + 1]]
    /\ UNCHANGED prog_vars

(***************************************************************************)
(* Gripper toggle with its inputs (toggle_gripper)                          *)
(***************************************************************************)
\* toggle_gripper(side) with the controller object present or not, the
\* gripper active or not, both flags, and what the gripper call does
ToggleCalls ==
    {[op |-> "toggle",
      in |-> [side |-> s, controller |-> c, is_active |-> a,
              gripper_open |-> g, outcome |-> o],
      pc |-> "call",
      out |-> [commands |-> <<>>, gripper_open |-> g]] :
        s \in Arms, c \in BOOLEAN, a \in BOOLEAN,
        g \in [Arms -> BOOLEAN], o \in {"ok", "raise"}}

\* variant that flips the flag whether or not the gripper call raised
ToggledFlag_m(is_open, outcome) == ~is_open

\* the flag after the gripper call: "not is_open" is assigned after the
\* call inside the try block, so a raising call leaves the flag
ToggledFlag(is_open, outcome) == IF outcome = "ok" THEN ~is_open ELSE is_open

\* "controller.close_gripper if is_open else controller.open_gripper"
ToggleAction(is_open) == IF is_open THEN "close_gripper" ELSE "open_gripper"

\* toggle_gripper(side): without a controller or with an inactive gripper it
\* returns before any call; otherwise the gripper call is made and the
\* side's flag is written
ToggleGripperCall ==
    /\ calc.op = "toggle"
    /\ calc.pc = "call"
    /\ LET side == calc.in.side
           is_open == calc.in.gripper_open[side]
       IN calc' =
            IF ~calc.in.controller \/ ~calc.in.is_active
            THEN [calc EXCEPT !.pc = "done"]
            ELSE [calc EXCEPT
                    !.pc = "done",
                    !.out.commands = <<[arm |-> side, call |-> ToggleAction(is_open)]>>,
                    !.out.gripper_open[side] = ToggledFlag(is_open, calc.in.outcome)]
    /\ UNCHANGED prog_vars

\* the arguments the functions are called with
CalcCalls(c) ==
    \/ c \in SelectCalls
    \/ c \in DepthCalls
    \/ c \in PoseCalls
    \/ c \in ProjectCalls
    \/ c \in ResetCalls
    \/ c \in SynthCalls
    \/ c \in DispatchCalls
    \/ c \in UploadCalls
    \/ c \in InitCalls
    \/ c \in PresetEventCalls
    \/ c \in ToggleCalls

\* the functions are called outside the threads of the controller, which has
\* just been constructed with everything available
InitCalc ==
    /\ current_mode_index = InitialModeIndex
    /\ control_mode = control_modes[InitialModeIndex + 1]
    /\ press_elapsed = NotPressed
    /\ current_speed_xy = initial_xy_speed
    /\ current_speed_z = initial_z_speed
    /\ gripper_open = [a \in Arms |-> TRUE]
    /\ setup = FullSetup
    /\ main_pc = "idle"
    /\ main_call = None
    /\ main_todo = <<>>
    /\ stop_issued = {}
    /\ is_recording = FALSE
    /\ audio_frames = {}
    /\ recording_thread = 0
    /\ rec_alive = {}
    /\ workers = [w \in Workers |-> IdleWorker]
    /\ CalcCalls(calc)

NextCalc ==
    \/ CaptureAndDetect
    \/ GetDepthRound
    \/ CalculateGraspPoses
    \/ Calculate3DPosition
    \/ AttemptResetBegin
    \/ AttemptResetPoseReturn
    \/ AttemptResetMoveReturn
    \/ CalculateSpeedCommands
    \/ ApplyTransformations
    \/ DispatchTick
    \/ ClientSendMetadata
    \/ ClientSendFile
    \/ ServerRecv
    \/ InitRobotsConnect
    \/ PowerOnReturn
    \/ ClearAlarmReturn
    \/ SetMotorStatusReturn
    \/ SetServoReturn
    \/ ConnectGripperReturn
    \/ DeviceChange
    \/ HandleResetEvent
    \/ ToggleGripperCall

SpecCalc == InitCalc /\ [][NextCalc]_vars

(***************************************************************************)
(* Properties                                                              *)
(***************************************************************************)
\* the worker's blocking moves of execute_grasp_sequence
MovePcs == {"pre", "grasp", "post"}
\* the steps of the grasp sequence: gripper calls and blocking moves
StepPcs == {"open", "pre", "grasp", "close", "post"}

C2_AtMostOneWorker ==
    Cardinality({w \in Workers : workers[w].pc # "idle"}) <= 1

ModeSuccessor(m) ==
    CASE m = MODE_XYZ -> MODE_RPY
      [] m = MODE_RPY -> MODE_RESET
      [] m = MODE_RESET -> MODE_VISION
      [] m = MODE_VISION -> MODE_XYZ

RECURSIVE Transitions(_, _)
\* the index after n mode transitions from index i
Transitions(i, n) == IF n = 0 THEN i ELSE Transitions(SwitchedIndex(i), n - 1)

\* C4: every mode transition moves the mode to its successor in the order
\* XYZ -> RPY -> RESET -> VISION -> XYZ; from any mode four transitions
\* return to it and fewer than four never do.
C4_ModeCycle ==
    /\ [](/\ control_mode = control_modes[current_mode_index + 1]
          /\ Transitions(current_mode_index, 4) = current_mode_index
          /\ \A n \in 1..3 : Transitions(current_mode_index, n) # current_mode_index)
    /\ [][(control_mode' # control_mode \/ current_mode_index' # current_mode_index)
             => control_mode' = ModeSuccessor(control_mode)]_vars

\* a worker that was started in VISION sees the mode back at XYZ: the fourth
\* transition has wrapped around
C4_Witness ==
    /\ control_mode = MODE_XYZ
    /\ \E w \in Workers : workers[w].pc = "report"

ModeChanges ==
    control_mode' # control_mode \/ current_mode_index' # current_mode_index

\* C5: a release of the mode button starts a mode switch only after a recorded
\* press held shorter than long_press_duration, the switch it starts makes
\* exactly one transition, a release after a longer hold makes none, and with
\* every release the recorded press time is cleared.
C5_Release ==
    [][/\ (main_pc = "idle" /\ main_pc' = "stop")
            => (press_elapsed # NotPressed /\ press_elapsed < long_press_duration)
       /\ ModeChanges
            => (/\ main_pc = "stop" /\ main_pc' = "idle"
                /\ current_mode_index' = (current_mode_index + 1) % 4)
       /\ (main_pc = "stop" /\ main_pc' = "stop") => ~ModeChanges
       /\ (main_pc = "stop" /\ main_pc' = "idle")
            => (ModeChanges /\ press_elapsed' = NotPressed)
       /\ (main_pc = "idle" /\ main_pc' = "idle" /\ press_elapsed # NotPressed
             /\ press_elapsed' # press_elapsed /\ press_elapsed' # press_elapsed + 1)
            => (/\ press_elapsed >= long_press_duration
                /\ press_elapsed' = NotPressed
                /\ ~ModeChanges)]_vars

\* a short press has been released and its switch is under way
C5_Witness ==
    /\ main_pc = "stop"
    /\ press_elapsed \in 0..(long_press_duration - 1)

\* C6: at every mode transition a stop command has been issued to every
\* initialized arm, whatever the outcome of the stop call to the other arm.
C6_StopBothArms ==
    [][ModeChanges => stop_issued = {a \in Arms : setup.init_ok[a]}]_vars

\* C7: a transition that leaves VISION while a recording is in progress
\* cancels it (is_recording false, frames discarded, no worker started), a
\* recording is in progress only in VISION, and a worker is started only from
\* a recording in progress that holds frames.
C7_CancelOnLeave ==
    /\ [](control_mode # MODE_VISION => ~is_recording)
    /\ [][/\ (control_mode = MODE_VISION /\ control_mode' # MODE_VISION /\ is_recording)
               => (/\ ~is_recording'
                   /\ audio_frames' = {}
                   /\ recording_thread' = 0
                   /\ workers' = workers)
          /\ \A w \in Workers :
               (workers[w].pc = "idle" /\ workers'[w].pc # "idle")
                 => (control_mode = MODE_VISION /\ is_recording /\ audio_frames # {})]_vars

\* the mode switch out of VISION is about to complete while a recording with
\* captured frames is in progress
C7_Witness ==
    /\ main_pc = "stop"
    /\ main_call = None
    /\ control_mode = MODE_VISION
    /\ is_recording
    /\ audio_frames # {}

\* C8: the mode is XYZ at startup, and only the completion of the mode-switch
\* gesture changes the mode or the mode index: speed buttons, gripper toggles,
\* presets, recording start/stop/cancel, jog ticks and the workers leave them.
C8_ModeFrame ==
    /\ (control_mode = MODE_XYZ /\ current_mode_index = 0)
    /\ [][ModeChanges => (main_pc = "stop" /\ main_call = None /\ main_pc' = "idle")]_vars

\* the speed was changed, a gripper was toggled and a worker has run, in the
\* mode the worker was started in
C8_Witness ==
    /\ control_mode = MODE_VISION
    /\ current_speed_xy # initial_xy_speed
    /\ \E side \in Arms : ~gripper_open[side]
    /\ \E w \in Workers : workers[w].pc = "report"

\* C9: one grasp request makes at most 2 capture calls and at most 2 motion
\* sequences; a request whose attempts never got a matching detection ends
\* with exactly 2 capture calls and no motion or gripper call.
C9_AttemptBound ==
    \A w \in Workers :
        /\ workers[w].captures <= 2
        /\ workers[w].execs <= 2
        /\ workers[w].pc \notin StepPcs \/ workers[w].execs >= 1
        /\ (workers[w].pc = "report" /\ workers[w].captures >= 1 /\ ~workers[w].matched)
             => (workers[w].captures = 2 /\ workers[w].execs = 0)

\* a request ended after two captures without a match
C9_Witness ==
    \E w \in Workers :
        /\ workers[w].pc = "report"
        /\ workers[w].captures = 2
        /\ ~workers[w].matched
        /\ workers[w].execs = 0

\* a precondition of a grasp with this arm and object is missing
MissingPrecondition(arm, id) ==
    \/ ~setup.init_ok[arm]
    \/ arm \notin setup.cameras
    \/ (id \notin setup.models /\ "default" \notin setup.models)
    \/ setup.calibration[arm] = None

\* C10: a grasp request whose arm is not initialized, whose hand camera is
\* missing, for which neither the class model nor the default model is loaded
\* or whose arm has no calibration ends with failure, without any capture,
\* motion or gripper call.
C10_PreconditionFailure ==
    \A w \in Workers :
        (workers[w].arm \in Arms /\ MissingPrecondition(workers[w].arm, workers[w].id))
            => (/\ workers[w].pc = "report"
                /\ workers[w].reported = "failure"
                /\ workers[w].captures = 0
                /\ workers[w].execs = 0)

\* a request for an arm with a missing precondition has ended
C10_Witness ==
    \E w \in Workers :
        /\ workers[w].pc = "report"
        /\ workers[w].arm \in Arms
        /\ MissingPrecondition(workers[w].arm, workers[w].id)

\* the calls of one attempt, from its capture to the end of its sequence
AttemptPcs == {"capture", "pose"} \cup StepPcs

\* C11: the attempt loop returns success only as the step that follows the
\* return of a sequence's last move, in the attempt in progress and without
\* a further capture or sequence, and it does so whenever that move returned
\* success; once it has returned, the worker makes no
\* capture, gripper or motion call; it returns failure only from an attempt
\* that is the last one the bound allows, and an attempt that fails before
\* the bound is followed by the next attempt's capture.
C11_StopAtFirstSuccess ==
    [][\A w \in Workers :
        LET a == workers[w]
            b == workers'[w] IN
        /\ (a.pc # "report" /\ b.pc = "report" /\ b.result = "True")
             => (/\ a.pc = "post"
                 /\ b.attempt = a.attempt
                 /\ b.captures = a.captures
                 /\ b.execs = a.execs)
        /\ (a.pc = "post" /\ b.last = "True")
             => (b.pc = "report" /\ b.result = "True")
        /\ a.pc = "report" => b.pc \in {"report", "idle"}
        /\ (a.pc \in AttemptPcs /\ b.pc = "report" /\ b.result = "False")
             => a.attempt = MAX_OBSERVATION_RETRIES
        /\ (a.pc \in AttemptPcs /\ b.pc = "capture" /\ b # a)
             => (/\ a.attempt < MAX_OBSERVATION_RETRIES
                 /\ b.attempt = a.attempt + 1
                 /\ b.captures = a.captures + 1)]_vars

\* the loop returned success in its first attempt
C11_Witness ==
    \E w \in Workers :
        /\ workers[w].pc = "report"
        /\ workers[w].result = "True"
        /\ workers[w].attempt = 1
        /\ workers[w].captures = 1

C13_SequenceOrder ==
    [][\A w \in Workers :
        LET a == workers[w]
            b == workers'[w] IN
        /\ (b.pc = "pose" /\ a.pc # "pose") => a.pc = "capture"
        /\ (b.pc = "open" /\ a.pc # "open")
             => (a.pc = "pose" /\ b.execs = a.execs + 1 /\ b.last = None)
        /\ (b.pc = "pre" /\ a.pc # "pre") => (a.pc = "open" /\ b.last = "ok")
        /\ (b.pc = "grasp" /\ a.pc # "grasp") => (a.pc = "pre" /\ b.last = "True")
        /\ (b.pc = "close" /\ a.pc # "close") => (a.pc = "grasp" /\ b.last = "True")
        /\ (b.pc = "post" /\ a.pc # "post") => (a.pc = "close" /\ b.last = "ok")
        /\ (b.pc \in StepPcs \cup {"pose"} /\ b.pc # a.pc) => b.attempt = a.attempt
        /\ (b.pc \in StepPcs \ {"open"}) => b.execs = a.execs
        /\ b.execs <= b.attempt]_vars

\* in the second attempt the gripper has been closed after both moves and the
\* post-grasp move is in progress
C13_Witness ==
    \E w \in Workers :
        /\ workers[w].pc = "post"
        /\ workers[w].last = "ok"
        /\ workers[w].attempt = 2
        /\ workers[w].execs = 2

C15_TransformFailureRetries ==
    [][\A w \in Workers :
        LET a == workers[w]
            b == workers'[w] IN
        (\/ (a.pc = "pose" /\ b.pc \notin {"pose", "open"})
         \/ (a.pc = "capture" /\ b.result = "raised"))
            => (/\ b.execs = a.execs
                /\ a.attempt < MAX_OBSERVATION_RETRIES
                     => (/\ b.pc = "capture"
                         /\ b.attempt = a.attempt + 1
                         /\ b.captures = a.captures + 1))]_vars

\* the boxes capture_and_detect may select: label of the requested object,
\* centre inside the depth frame, valid depth
Candidates(boxes, object_id) ==
    {i \in 1..Len(boxes) : /\ boxes[i].label = object_id
                           /\ boxes[i].in_bounds
                           /\ boxes[i].depth_mm > 0
                           /\ boxes[i].depth_mm < DEPTH_LIMIT_MM}

\* C16: the box capture_and_detect selects is one with the requested label
\* and a valid centre depth, and no such box has a smaller depth; when no box
\* has the label or none of those has a valid depth, no box is selected.
C16_NearestSelected ==
    (calc.op = "select" /\ calc.pc = "done") =>
        LET boxes == calc.in.boxes
            cand == Candidates(boxes, calc.in.object_id) IN
        IF cand = {} THEN calc.out = 0
        ELSE /\ calc.out \in cand
             /\ \A i \in cand : boxes[calc.out].depth_mm <= boxes[i].depth_mm

\* a selection among two valid boxes of the requested object, the nearer one
\* being the later in the list, and a box of another class that is nearer
\* than both
C16_Witness ==
    /\ calc.op = "select"
    /\ calc.pc = "done"
    /\ Len(calc.in.boxes) = 3
    /\ calc.in.boxes[1] = [label |-> ObjectId, in_bounds |-> TRUE, depth_mm |-> 500]
    /\ calc.in.boxes[2] = [label |-> "other", in_bounds |-> TRUE, depth_mm |-> 300]
    /\ calc.in.boxes[3] = [label |-> ObjectId, in_bounds |-> TRUE, depth_mm |-> 300]
    /\ calc.out = 3

\* C17: the depth search ends: once a round has scanned the whole frame
\* without finding a depth other than 0, the search gives up instead of
\* starting another round.
C17_SearchGivesUp ==
    (calc.op = "depth" /\ calc.pc = "search" /\ calc.out.search_radius > 1)
        => SearchWindow(calc.in.color_point, calc.out.search_radius - 1) # Pixels

\* a pose with the x, y and orientation of another one, higher by dz
RaisedBy(pose, other, dz) ==
    /\ \A i \in {1, 2, 4, 5, 6} : pose[i] = other[i]
    /\ pose[3] = other[3] + dz

\* C18: in every grasp plan the pre-grasp and the post-grasp pose have the x,
\* y and orientation of the grasp pose and lie above it by a positive offset
\* each, and the post-grasp lift is larger than the pre-grasp approach.
C18_PlanOffsets ==
    (calc.op = "poses" /\ calc.pc = "done") =>
        \E approach, lift \in 1..200 :
            /\ RaisedBy(calc.out.pre_grasp_pose, calc.out.grasp_pose, approach)
            /\ RaisedBy(calc.out.post_grasp_pose, calc.out.grasp_pose, lift)
            /\ lift > approach

\* the call of the example: centre (320, 240), depth 500 mm, fx = fy = 600,
\* cx = 320, cy = 240
ExampleProjection ==
    /\ calc.in.detection_box = <<300, 220, 340, 260>>
    /\ calc.in.depth_mm = 500
    /\ calc.in.camera_client = [rgb_fx |-> 600, rgb_fy |-> 600, ppx |-> 320, ppy |-> 240]

\* C19: the camera-frame point computed for a box with centre pixel (u, v)
\* and depth d mm is ((u - cx) * z / fx, (v - cy) * z / fy, z) with
\* z = d / 1000; for the centre (320, 240), depth 500 mm, fx = fy = 600,
\* cx = 320 and cy = 240 a point is computed and it is (0, 0, 1/2).
C19_BackProjection ==
    (calc.op = "project" /\ calc.pc = "done") =>
        LET u == (calc.in.detection_box[1] + calc.in.detection_box[3]) \div 2
            v == (calc.in.detection_box[2] + calc.in.detection_box[4]) \div 2
            d == calc.in.depth_mm
            k == calc.in.camera_client IN
        /\ Len(calc.out) = 3 =>
             /\ FracEq(calc.out[3], Frac(d, 1000))
             /\ FracEq(calc.out[1], Frac((u - k.ppx) * d, 1000 * k.rgb_fx))
             /\ FracEq(calc.out[2], Frac((v - k.ppy) * d, 1000 * k.rgb_fy))
        /\ ExampleProjection =>
             /\ Len(calc.out) = 3
             /\ FracEq(calc.out[1], <<0, 1>>)
             /\ FracEq(calc.out[2], <<0, 1>>)
             /\ FracEq(calc.out[3], <<1, 2>>)

\* the point of the example has been computed
C19_Witness ==
    /\ calc.op = "project"
    /\ calc.pc = "done"
    /\ ExampleProjection
    /\ Len(calc.out) = 3

\* the invocation gets as far as the move: the arm is initialized, the preset
\* is a list of 3 values, the pose is read and the orientation converted
ReachesMove ==
    /\ calc.in.is_init_ok
    /\ ValidPresetEntry(calc.in.entry)
    /\ calc.in.pose = "ok"
    /\ calc.in.desire = "ok"

C21_PoseReadFailure ==
    (/\ calc.op = "preset"
     /\ calc.in.is_init_ok
     /\ ValidPresetEntry(calc.in.entry)
     /\ calc.in.pose \in {"None", "raise"}) =>
        /\ calc.out.moves = 0
        /\ calc.out.sent = <<>>
        /\ calc.pc # "move"
        /\ calc.pc = "done" => (calc.out.result = "False" /\ calc.out.cue = "fail")

\* an invocation whose pose read returned nothing has ended after the read
C21_Witness ==
    /\ calc.op = "preset"
    /\ calc.pc = "done"
    /\ calc.in.pose = "None"
    /\ calc.out.reads = 1
    /\ calc.out.result = "False"
    /\ calc.out.cue = "fail"

\* C22: the pose sent by the pose-preset executor has the x, y, z of the
\* pose just read and the three orientation components of the converted
\* preset, nothing else; the move is issued blocking, at the preset speed.
C22_OnlyOrientationReplaced ==
    (calc.op = "preset" /\ calc.out.sent # <<>>) =>
        /\ Len(calc.out.sent) = 1
        /\ Len(calc.out.sent[1].target_pose) = 6
        /\ \A i \in 1..3 :
             /\ calc.out.sent[1].target_pose[i] = calc.in.current_pose[i]
             /\ calc.out.sent[1].target_pose[i + 3] = calc.in.rpy_angles[i]
        /\ calc.out.sent[1].block
        /\ calc.out.sent[1].speed = reset_rpy_speed

\* a move was sent whose orientation differs in every component from the one
\* that was read
C22_Witness ==
    /\ calc.op = "preset"
    /\ calc.pc = "move"
    /\ Len(calc.out.sent) = 1
    /\ \A i \in 4..6 : calc.out.sent[1].target_pose[i] # calc.in.current_pose[i]

\* C23: on an initialized arm, a preset entry that is missing, is not a list
\* or has not exactly 3 values ends the invocation as an invalid preset
\* before any pose read or move call, and the status it leaves is not the
\* status of a failed move.
C23_InvalidPresetRejected ==
    calc.op = "preset" =>
        /\ (/\ calc.in.is_init_ok
            /\ \/ calc.in.entry.kind = "none"
               \/ calc.in.entry.kind # "list"
               \/ calc.in.entry.len # 3) =>
                /\ calc.out.reads = 0
                /\ calc.out.moves = 0
                /\ calc.pc \in {"call", "done"}
                /\ calc.pc = "done" => calc.out.status = "invalid_preset"
        /\ (calc.pc = "done" /\ calc.out.reads > 0 /\ calc.out.result = "False") =>
                calc.out.status = "failed"

\* a list of 2 values was rejected as an invalid preset
C23_Witness ==
    /\ calc.op = "preset"
    /\ calc.pc = "done"
    /\ calc.in.is_init_ok
    /\ calc.in.entry = [kind |-> "list", len |-> 2]
    /\ calc.out.status = "invalid_preset"
    /\ calc.out.reads = 0

\* the synthesizer has returned its two command vectors
Synthesized == calc.op = "synth" /\ calc.pc \in {"transform", "done"}

\* C24: in the modes RESET and VISION the synthesized vector and the vector
\* after the transformation are zero in all six components for both arms,
\* whatever the binding table and the device state.
C24_ZeroOutsideJogModes ==
    (Synthesized /\ calc.in.mode \in {MODE_RESET, MODE_VISION}) =>
        \A a \in Arms :
            /\ calc.out.cmd[a] = <<0, 0, 0, 0, 0, 0>>
            /\ calc.pc = "done" => calc.out.final[a] = <<0, 0, 0, 0, 0, 0>>

\* the synthesizer ran in VISION mode with a non-empty table while buttons
\* were pressed and sticks deflected
C24_Witness ==
    /\ calc.op = "synth"
    /\ calc.pc = "done"
    /\ calc.in.mode = MODE_VISION
    /\ calc.in.joystick
    /\ calc.in.controls_map # <<>>
    /\ calc.in.device.button[0] = 1
    /\ calc.in.device.axis[0] = 50
    /\ calc.out.final["left"] = <<0, 0, 0, 0, 0, 0>>

\* C25: the vector dispatched in XYZ mode has its three orientation
\* components zero; the vector dispatched in RPY mode has its three
\* translation components zero and its orientation components equal to the
\* synthesized ones.
C25_SubVectors ==
    (calc.op = "synth" /\ calc.pc = "done") =>
        \A a \in Arms :
            /\ calc.in.mode = MODE_XYZ =>
                 \A i \in 4..6 : calc.out.final[a][i] = 0
            /\ calc.in.mode = MODE_RPY =>
                 /\ \A i \in 1..3 : calc.out.final[a][i] = 0
                 /\ \A i \in 4..6 : calc.out.final[a][i] = calc.out.cmd[a][i]

\* in RPY mode a roll command of the left arm and a yaw command of the
\* right arm went through
C25_Witness ==
    /\ calc.op = "synth"
    /\ calc.pc = "done"
    /\ calc.in.mode = MODE_RPY
    /\ calc.out.final["left"][4] # 0
    /\ calc.out.final["right"][6] # 0

\* the entry at position k of the table was evaluated: it is a dictionary
\* whose name belongs to the mode and names an arm part
Evaluated(k) ==
    /\ calc.in.joystick
    /\ calc.in.mode \in {MODE_XYZ, MODE_RPY}
    /\ calc.in.controls_map[k].is_dict
    /\ ActionOfMode(calc.in.controls_map[k].action, calc.in.mode)

\* the arm and component the entry at position k drives
Drives(k) ==
    <<IF ActionNamesArm(calc.in.controls_map[k].action, "left") THEN "left"
      ELSE IF ActionNamesArm(calc.in.controls_map[k].action, "right") THEN "right"
      ELSE None,
      ActionAxisIdx(calc.in.controls_map[k].action, calc.in.mode)>>

\* the entry at position k is the last active one that drives its component
Decides(k) ==
    /\ Evaluated(k)
    /\ calc.out.active[k] = "active"
    /\ Drives(k)[1] \in Arms
    /\ Drives(k)[2] # -1
    /\ \A j \in (k + 1)..Len(calc.in.controls_map) :
         ~(Evaluated(j) /\ calc.out.active[j] = "active" /\ Drives(j) = Drives(k))

\* the magnitude of a component, in hundredths of the base speed
ComponentMagnitude(k) ==
    LET v == calc.out.cmd[Drives(k)[1]][Drives(k)[2] + 1]
    IN  IF v < 0 THEN -v ELSE v

\* C26: an evaluated axis binding with an index of the device is active
\* exactly when the axis value is above the threshold for direction +1 or
\* below minus the threshold for direction -1; the component it decides has
\* the magnitude base speed times the absolute axis value, and the component
\* a button decides has the magnitude base speed times 1.
C26_AxisActivationAndMagnitude ==
    Synthesized =>
        \A k \in 1..Len(calc.in.controls_map) :
            LET b == calc.in.controls_map[k]
                base_speed == BaseSpeed(Drives(k)[2], current_speed_xy, current_speed_z)
            IN  /\ (/\ Evaluated(k)
                    /\ b.type = "axis"
                    /\ b.index \in 0..(num_axes - 1)) =>
                        /\ calc.out.active[k] = "active" <=>
                             \/ b.direction = 1 /\ calc.in.device.axis[b.index] > b.threshold
                             \/ b.direction = -1 /\ calc.in.device.axis[b.index] < -b.threshold
                        /\ Decides(k) =>
                             \/ ComponentMagnitude(k) = base_speed * calc.in.device.axis[b.index]
                             \/ ComponentMagnitude(k) = base_speed * (-calc.in.device.axis[b.index])
                /\ (Decides(k) /\ b.type = "button") =>
                        ComponentMagnitude(k) = base_speed * 100

\* the +x binding of the left arm was active at half deflection and gave
\* half the base speed, while the -x binding on the same axis was inactive
C26_Witness ==
    /\ Synthesized
    /\ calc.in.mode = MODE_XYZ
    /\ Len(calc.in.controls_map) > 1
    /\ calc.in.controls_map[1].type = "axis"
    /\ calc.in.controls_map[1].direction = 1
    /\ calc.in.device.axis[0] = 50
    /\ calc.out.active[1] = "active"
    /\ calc.out.active[2] = "inactive"
    /\ calc.out.cmd["left"][1] = current_speed_xy * 50

\* the control index of a binding is one the device has
IndexOfDevice(b) ==
    \/ b.type = "button" /\ b.index \in 0..(num_buttons - 1)
    \/ b.type = "axis" /\ b.index \in 0..(num_axes - 1)
    \/ b.type = "hat" /\ b.index \in 0..(num_hats - 1)
    \/ b.type \notin {"button", "axis", "hat"}

\* C27: the evaluation of the bindings never raises; an evaluated button,
\* axis or hat binding whose index is outside the device's range is
\* inactive, and the synthesized vectors are those of the table without
\* such bindings.
C27_OutOfRangeIgnored ==
    calc.op = "synth" =>
        /\ calc.pc # "raised"
        /\ ~calc.out.raised
        /\ Synthesized =>
             /\ \A k \in 1..Len(calc.in.controls_map) :
                  (Evaluated(k) /\ ~IndexOfDevice(calc.in.controls_map[k])) =>
                      calc.out.active[k] = "inactive"
             /\ calc.out.cmd =
                  SpeedCommands([calc.in EXCEPT
                                   !.controls_map = SelectSeq(@, IndexOfDevice)],
                                current_speed_xy, current_speed_z).cmd

\* a pressed-button state was evaluated against a table with a button
\* binding at index 2 of a device with 2 buttons
C27_Witness ==
    /\ Synthesized
    /\ calc.in.mode = MODE_XYZ
    /\ Len(calc.in.controls_map) > 2
    /\ calc.in.controls_map[3].type = "button"
    /\ calc.in.controls_map[3].index = num_buttons
    /\ calc.in.device.button[0] = 1
    /\ calc.in.device.button[1] = 1
    /\ calc.out.active[3] = "inactive"
    /\ calc.out.cmd["right"][3] = 0

\* the calls the controller of an arm received in a tick
CallsOf(tick, arm) ==
    SelectSeq(calc.out.calls, LAMBDA c : c.tick = tick /\ c.arm = arm)

\* C28: in every tick in XYZ mode each initialized arm receives exactly one
\* Cartesian-velocity call, carrying the final vector, also when the vector
\* is zero, and an arm that is not initialized receives none; in RESET and
\* VISION mode the per-tick path makes no call at all.
C28_OneVelocityCallPerTick ==
    calc.op = "dispatch" =>
        /\ calc.in.mode = MODE_XYZ =>
             \A t \in 1..calc.out.tick : \A a \in Arms :
                 IF calc.in.init_ok[a]
                 THEN /\ Len(CallsOf(t, a)) = 1
                      /\ CallsOf(t, a)[1].call = "moveBySpeedl"
                      /\ CallsOf(t, a)[1].speed_vector = calc.in.final[a]
                 ELSE CallsOf(t, a) = <<>>
        /\ calc.in.mode \in {MODE_RESET, MODE_VISION} => calc.out.calls = <<>>

\* two ticks in XYZ mode with both arms initialized, the left vector zero:
\* the left arm received a velocity call in each
C28_Witness ==
    /\ calc.op = "dispatch"
    /\ calc.pc = "done"
    /\ calc.in.mode = MODE_XYZ
    /\ calc.in.init_ok["left"] /\ calc.in.init_ok["right"]
    /\ calc.in.final["left"] = <<0, 0, 0, 0, 0, 0>>
    /\ calc.in.final["right"] # <<0, 0, 0, 0, 0, 0>>
    /\ Len(CallsOf(1, "left")) = 1
    /\ Len(CallsOf(2, "left")) = 1
    /\ Len(calc.out.calls) = 4

\* C29 as stated: in every tick in RPY mode an initialized arm receives, for
\* every nonzero component i (0..5) of its vector, exactly one jog pulse,
\* with index 2i for a positive and 2i + 1 for a negative component, no pulse
\* for a zero component, and every index lies in 0..11.
C29_OnePulsePerComponent ==
    (calc.op = "dispatch" /\ calc.in.mode = MODE_RPY) =>
        \A t \in 1..calc.out.tick : \A a \in Arms :
            calc.in.init_ok[a] =>
                /\ \A i \in 0..5 :
                     LET v == calc.in.final[a][i + 1]
                         n(index) == Cardinality({k \in 1..Len(CallsOf(t, a)) :
                                                    CallsOf(t, a)[k].index = index})
                     IN  /\ v > 0 => (n(2 * i) = 1 /\ n(2 * i + 1) = 0)
                         /\ v < 0 => (n(2 * i) = 0 /\ n(2 * i + 1) = 1)
                         /\ v = 0 => (n(2 * i) = 0 /\ n(2 * i + 1) = 0)
                /\ \A k \in 1..Len(CallsOf(t, a)) :
                     /\ CallsOf(t, a)[k].call = "jog"
                     /\ CallsOf(t, a)[k].index \in 0..11

\* C30: when a call of the per-tick path raises, the tick goes on and the
\* loop runs its next tick: the other arm receives in the same tick what it
\* receives in a tick without failure, and the call that raised is made
\* again in the next tick, the input being the same.
C30_FailureStaysInTick ==
    calc.op = "dispatch" =>
        \A t \in 1..calc.out.tick : \A a \in Arms :
            (\E k \in 1..Len(CallsOf(t, a)) : CallsOf(t, a)[k].raised) =>
                /\ \A o \in Arms \ {a} :
                     CallsOf(t, o) = ArmCommands(calc.in, t, o)
                /\ (t + 1 \in Ticks /\ calc.pc = "done") =>
                     \E j \in 1..Len(CallsOf(t + 1, a)) :
                         /\ CallsOf(t + 1, a)[j].call = CallsOf(t, a)[1].call
                         /\ CallsOf(t + 1, a)[j].index = CallsOf(t, a)[1].index
                         /\ CallsOf(t + 1, a)[j].speed_vector = CallsOf(t, a)[1].speed_vector

\* the left arm's velocity call raised in the first tick; the right arm
\* received its call in that tick and the left arm a call in the second
C30_Witness ==
    /\ calc.op = "dispatch"
    /\ calc.pc = "done"
    /\ calc.in.mode = MODE_XYZ
    /\ calc.in.init_ok["left"] /\ calc.in.init_ok["right"]
    /\ calc.in.failing = {<<1, "left">>}
    /\ Len(CallsOf(1, "left")) = 1 /\ CallsOf(1, "left")[1].raised
    /\ Len(CallsOf(1, "right")) = 1
    /\ Len(CallsOf(2, "left")) = 1 /\ ~CallsOf(2, "left")[1].raised

\* the metadata line of the upload: what was sent before the file
SentMetadata ==
    SubSeq(calc.out.sent, 1,
           Len(calc.out.sent) - (IF calc.pc = "sent" THEN Len(calc.in.clip) ELSE 0))

C32_ReachesMotionSequence ==
    \A w \in Workers :
        (/\ workers[w].arm \in Arms
         /\ setup.calibration[workers[w].arm] = "ndarray"
         /\ workers[w].matched
         /\ workers[w].pc = "report") =>
            workers[w].result # "raised"

\* C33 as stated: when the reading at the requested pixel is not 0 the
\* sampled depth is that reading; otherwise the search returns a reading
\* other than 0 from the smallest radius whose window contains one.
C33_CenterReadingFirst ==
    (calc.op = "depth" /\ calc.pc = "done") =>
        /\ calc.in.depth_data[calc.in.color_point] > 0 =>
             calc.out.center_depth = calc.in.depth_data[calc.in.color_point]
        /\ calc.in.depth_data[calc.in.color_point] = 0 =>
             /\ calc.out.center_depth > 0
             /\ \E p \in SearchWindow(calc.in.color_point, calc.out.search_radius) :
                  calc.in.depth_data[p] = calc.out.center_depth
             /\ \A r \in 1..(calc.out.search_radius - 1) :
                  \A p \in SearchWindow(calc.in.color_point, r) : calc.in.depth_data[p] = 0


\* a gripper call of a grasp sequence returned without raising: the worker
\* moved on from the call to the move that follows it
GraspGripperCall(w, pc, next) ==
    /\ workers[w].pc = pc
    /\ workers'[w].pc = next

\* a gamepad toggle whose gripper command returned without raising
ToggleCommanded(side) ==
    /\ ToggleGripper(side)
    /\ gripper_open'[side] # gripper_open[side]

InitCalled(call) == \E i \in 1..Len(calc.out.calls) : calc.out.calls[i] = call

\* C35: an arm is reported initialized only if power-on, motor sync and
\* servo-enable all succeeded; when one of the three fails the arm is marked
\* not initialized, and servo-enable is never attempted after a failed
\* power-on.
C35_InitNeedsAllThree ==
    (calc.op = "init" /\ calc.pc = "done") =>
        /\ calc.out.init_ok <=>
             /\ calc.in.connect = "True"
             /\ calc.in.power_on = "True"
             /\ calc.in.clearAlarm = "True"
             /\ calc.in.setMotorStatus = "True"
             /\ calc.in.set_servo = "True"
        /\ (InitCalled("power_on") /\ calc.in.power_on # "True") =>
             ~InitCalled("set_servo")


C37_OneShotWhileHeld ==
    calc.op = "presets" =>
        \A i \in DOMAIN calc.out.held : calc.out.held[i] <= 1


\* C38: a gripper toggle flips the side's flag exactly when a gripper
\* command was issued and did not raise; without a controller or with an
\* inactive gripper no command is issued and the flag stays; a raising
\* command leaves the flag; the command is close for an open gripper and
\* open for a closed one; the other arm's flag never changes.
C38_ToggleFlipsOnSuccess ==
    (calc.op = "toggle" /\ calc.pc = "done") =>
        LET side == calc.in.side
            flipped == calc.out.gripper_open[side] # calc.in.gripper_open[side]
        IN /\ flipped <=> (calc.out.commands # <<>> /\ calc.in.outcome = "ok")
           /\ (~calc.in.controller \/ ~calc.in.is_active) <=> calc.out.commands = <<>>
           /\ \A i \in 1..Len(calc.out.commands) :
                /\ calc.out.commands[i].arm = side
                /\ calc.out.commands[i].call =
                     (IF calc.in.gripper_open[side] THEN "close_gripper" ELSE "open_gripper")
           /\ Len(calc.out.commands) <= 1
           /\ \A a \in Arms \ {side} :
                calc.out.gripper_open[a] = calc.in.gripper_open[a]

\* a toggle whose gripper command raised: the command was issued and the
\* flag still says open
C38_Witness ==
    /\ calc.op = "toggle"
    /\ calc.pc = "done"
    /\ calc.out.commands # <<>>
    /\ calc.in.outcome = "raise"
    /\ calc.in.gripper_open[calc.in.side]
    /\ calc.out.gripper_open[calc.in.side]


\* the main thread enters a robot call (velocity, jog, stop or blocking
\* move) on the arm
MainIssues(arm) ==
    /\ main_call' = arm
    /\ <<main_pc', main_call'>> # <<main_pc, main_call>>

\* the worker enters a step of the grasp sequence
WorkerIssues(w) ==
    /\ workers'[w].pc \in StepPcs
    /\ workers'[w].pc # workers[w].pc

C40_SingleCapture ==
    /\ is_recording => rec_alive \subseteq {recording_thread}
    /\ audio_frames \subseteq {recording_thread}

====
